---- MODULE Spec2Model ----
(***************************************************************************)
(* A model of wt (agarcher/wt): worktree lifecycle (create, delete,        *)
(* cleanup), the index allocator, the status classifier, the comparison    *)
(* resolver and the hook orchestrator.                                     *)
(*                                                                         *)
(* Worktree names are 1..MaxNames.  With the default branch_pattern        *)
(* "{name}" the branch of worktree n is branch n, so branch names are the  *)
(* same numbers; 0 stands for the empty string (no branch, no name).       *)
(* A branch b is described by the number own[b] of commits made on it      *)
(* since it was forked from the default branch and, for each ref it can be *)
(* compared with, by the number of those commits that ref contains.        *)
(***************************************************************************)
EXTENDS Integers, Sequences, FiniteSets, TLC

\* ------------------------------------------------------------ bounds
MaxNames   == 2
MaxCommits == 1
MaxHooks   == 2
MaxTime    == 3

Names    == 1..MaxNames
Outcomes == {"ok", "exit1", "missing"}
Events   == {"pre_create", "post_create", "pre_delete", "post_delete"}

\* ------------------------------------------------------------ state
VARIABLES
    live,           \* names of the worktrees that exist (directory + .git/worktrees/<name>)
    wtBranch,       \* wtBranch[n]: branch checked out in worktree n, 0 if n is not live
    branches,       \* local branches other than the default branch
    own,            \* own[b]: commits on branch b since its fork point
    inMain,         \* inMain[b]: how many of them the local default branch contains
    inTrack,        \* inTrack[b]: how many of them <remote>/<default> (the tracking ref) contains
    inUp,           \* inUp[b]: how many of them the remote repository's default branch contains
    trackExists,    \* whether the ref <remote>/<default> exists locally
    dirty,          \* worktrees with uncommitted changes
    locked,         \* worktrees locked with git worktree lock
    index,          \* index[n]: content of .git/worktrees/n/wt-index, 0 if absent
    initialCommit,  \* initialCommit[n]: wt.initialCommit of n, <<>> if unset, else <<commit>>
    createdAt,      \* createdAt[n]: wt.createdAt of n, 0 if unset
    lastFetch,      \* persisted last successful fetch time of the remote, 0 if never
    fetchLog,       \* the last git fetch wt issued: when (0 if none yet) and whether it succeeded
    headStale,      \* refs/remotes/<remote>/HEAD no longer names the remote's default branch
    now,            \* wall clock
    cfg,            \* .wt.yaml: the hook lists
    scripts,        \* scripts[event][i]: what the script of entry i of the list does when run
    userCfg,        \* ~/.config/wt/config.yaml: remote and fetch_interval
    result,         \* what the last command did and returned
    probe           \* one call of Run or of the candidate selection on drawn inputs

gitVars  == <<live, wtBranch, branches, own, inMain, dirty, locked>>
metaVars == <<index, initialCommit, createdAt>>
netVars  == <<inTrack, inUp, trackExists, lastFetch, fetchLog, headStale>>
confVars == <<cfg, scripts, userCfg>>
vars     == <<live, wtBranch, branches, own, inMain, inTrack, inUp, trackExists,
              dirty, locked, index, initialCommit, createdAt, lastFetch, fetchLog, headStale, now, cfg,
              scripts, userCfg, result, probe>>

\* no fetch issued yet
NoFetch == [at |-> 0, ok |-> FALSE]

\* ------------------------------------------------------------ repository snapshot
\* The commands are computed on a snapshot record of the repository and the
\* outcome is installed at the end of the action.
Repo ==
    [live |-> live, wtBranch |-> wtBranch, branches |-> branches, own |-> own,
     inMain |-> inMain, inTrack |-> inTrack, inUp |-> inUp,
     trackExists |-> trackExists, dirty |-> dirty, locked |-> locked, index |-> index,
     initialCommit |-> initialCommit, createdAt |-> createdAt,
     lastFetch |-> lastFetch, fetchLog |-> fetchLog, headStale |-> headStale]

Install(r) ==
    /\ live' = r.live
    /\ wtBranch' = r.wtBranch
    /\ branches' = r.branches
    /\ own' = r.own
    /\ inMain' = r.inMain
    /\ inTrack' = r.inTrack
    /\ inUp' = r.inUp
    /\ trackExists' = r.trackExists
    /\ dirty' = r.dirty
    /\ locked' = r.locked
    /\ index' = r.index
    /\ initialCommit' = r.initialCommit
    /\ createdAt' = r.createdAt
    /\ lastFetch' = r.lastFetch
    /\ fetchLog' = r.fetchLog
    /\ headStale' = r.headStale

\* ------------------------------------------------------------ hook orchestrator
\* A hook entry is named by its script; oc[script] is what the script does:
\* "missing" (no such file), "exit1" (runs and exits non-zero), "ok".

\* runHook: an entry whose script is missing fails before anything is executed;
\* otherwise the script is executed and fails iff it exits non-zero.
runHook(entry, oc) ==
    CASE oc[entry] = "missing" -> "hook script not found"
      [] oc[entry] = "exit1"   -> "exit status 1"
      [] OTHER                 -> ""

\* the start of Run: nothing handed to runHook yet
RunStart(entries, oc) ==
    [kind |-> "hooks", entries |-> entries, oc |-> oc, i |-> 1, log |-> <<>>,
     ran |-> <<>>, err |-> "", done |-> FALSE]

\* a loop that notes the error and goes on to the next entry
RunStepContinues(h) ==
    IF h.i > Len(h.entries)
    THEN [h EXCEPT !.done = TRUE]
    ELSE LET entry == h.entries[h.i]
             e     == runHook(entry, h.oc)
         IN [h EXCEPT !.log  = Append(@, entry),
                      !.ran  = IF h.oc[entry] = "missing" THEN @ ELSE Append(@, entry),
                      !.err  = e,
                      !.i    = @ + 1]

\* One iteration of the loop of Run.  log lists the entries handed to runHook
\* so far, ran those whose script bash was started on.
RunStep(h) ==
    IF h.i > Len(h.entries)
    THEN [h EXCEPT !.done = TRUE]
    ELSE LET entry == h.entries[h.i]
             e     == runHook(entry, h.oc)
         IN [h EXCEPT !.log  = Append(@, entry),
                      !.ran  = IF h.oc[entry] = "missing" THEN @ ELSE Append(@, entry),
                      !.err  = e,
                      !.done = (e # ""),
                      !.i    = @ + 1]

RECURSIVE RunLoop(_)
RunLoop(h) == IF h.done THEN h ELSE RunLoop(RunStep(h))

Run(entries, oc) == RunLoop(RunStart(entries, oc))

\* RunPreCreate, RunPostCreate, RunPreDelete, RunPostDelete: nothing to do for an
\* empty list, else Run over the configured list.
RunEvent(event) ==
    IF Len(cfg[event]) = 0
    THEN [log |-> <<>>, err |-> ""]
    ELSE LET h == Run(cfg[event], scripts[event])
         IN [log |-> h.log, err |-> h.err]

\* what a command records of a hook list it ran: event, worktree, script, WT_INDEX
HookLog(event, n, idx, log) ==
    [i \in 1..Len(log) |-> [ev |-> event, name |-> n, script |-> log[i], idx |-> idx]]

\* ------------------------------------------------------------ index allocator
GetWorktreeIndex(r, n) == r.index[n]

SetWorktreeIndex(r, n, i) == [r EXCEPT !.index[n] = i]

\* the indexes found by scanning the metadata directories of the worktrees
UsedIndexes(r) == { GetWorktreeIndex(r, n) : n \in { m \in r.live : r.index[m] # 0 } }

\* the search loop of AllocateIndex from i on; the error names the bound
RECURSIVE AllocateFrom(_, _, _)
AllocateFrom(i, used, maxIndex) ==
    IF maxIndex > 0 /\ i > maxIndex
    THEN [idx |-> 0, err |-> "no available index", bound |-> maxIndex]
    ELSE IF i \notin used
         THEN [idx |-> i, err |-> "", bound |-> 0]
         ELSE AllocateFrom(i + 1, used, maxIndex)

AllocateIndex(r, maxIndex) == AllocateFrom(1, UsedIndexes(r), maxIndex)

\* ------------------------------------------------------------ git query facade
BranchExists(r, b) == b \in r.branches

GetCurrentBranch(r, n) == r.wtBranch[n]

HasUncommittedChanges(r, n) == n \in r.dirty

\* the commit a worktree's HEAD is at, named by its position on the branch
GetCurrentCommit(r, n) == r.own[r.wtBranch[n]]

\* how many commits of branch b the comparison ref contains
Contained(r, b, ref) == IF ref = "track" THEN r.inTrack[b] ELSE r.inMain[b]

\* GetCommitsAheadBehind, the ahead count: 0 for a detached HEAD
GetCommitsAhead(r, n, ref) ==
    IF r.wtBranch[n] = 0 THEN 0
    ELSE r.own[r.wtBranch[n]] - Contained(r, r.wtBranch[n], ref)

\* GetMergedBranches: the local branches whose tip the ref contains
GetMergedBranches(r, ref) ==
    { b \in r.branches : r.own[b] = Contained(r, b, ref) }

GetWorktreeInitialCommit(r, n) == r.initialCommit[n]

GetWorktreeStatus(r, n, b, ref, mergedCache) ==
    [HasUncommittedChanges |-> HasUncommittedChanges(r, n),
     CommitsAhead          |-> GetCommitsAhead(r, n, ref),
     IsMerged              |-> b \in mergedCache,
     IsNew                 |-> /\ GetWorktreeInitialCommit(r, n) # <<>>
                               /\ GetCurrentCommit(r, n) = GetWorktreeInitialCommit(r, n)[1]]

\* git worktree add <path> <branch>: refused if the path exists or the branch
\* is checked out in another worktree
CreateWorktreeFromBranch(r, n, b) ==
    IF n \in r.live \/ \E m \in r.live : r.wtBranch[m] = b
    THEN [ok |-> FALSE, repo |-> r]
    ELSE [ok |-> TRUE,
          repo |-> [r EXCEPT !.live = @ \cup {n}, !.wtBranch[n] = b]]

\* git worktree add -b <branch> <path>: the branch is created at the default
\* branch's tip, then the worktree; git creates the branch before it finds
\* that the path exists
CreateWorktree(r, n, b) ==
    LET withBranch == [r EXCEPT !.branches = @ \cup {b}, !.own[b] = 0,
                                !.inMain[b] = 0, !.inTrack[b] = 0, !.inUp[b] = 0]
    IN IF b \in r.branches THEN [ok |-> FALSE, repo |-> r]
       ELSE IF n \in r.live THEN [ok |-> FALSE, repo |-> withBranch]
       ELSE [ok |-> TRUE,
             repo |-> [withBranch EXCEPT !.live = @ \cup {n}, !.wtBranch[n] = b]]

\* a git worktree remove that leaves the metadata of the worktree behind
RemoveWorktreeKeepsMetadata(r, n, force) ==
    IF n \notin r.live \/ n \in r.locked \/ (~force /\ n \in r.dirty)
    THEN [ok |-> FALSE, repo |-> r]
    ELSE [ok |-> TRUE,
          repo |-> [r EXCEPT !.live = @ \ {n}, !.wtBranch[n] = 0, !.dirty = @ \ {n}]]

\* git worktree remove [--force]: refused without --force if the worktree has
\* modified or untracked files, and refused with or without a single --force
\* if the worktree is locked; removes the directory and its metadata
RemoveWorktree(r, n, force) ==
    IF n \notin r.live \/ n \in r.locked \/ (~force /\ n \in r.dirty)
    THEN [ok |-> FALSE, repo |-> r]
    ELSE [ok |-> TRUE,
          repo |-> [r EXCEPT !.live = @ \ {n}, !.wtBranch[n] = 0,
                             !.dirty = @ \ {n}, !.index[n] = 0,
                             !.initialCommit[n] = <<>>, !.createdAt[n] = 0]]

\* a branch deletion that reports success and leaves the branch
DeleteBranchLeavesBranch(r, b, force) == [ok |-> TRUE, repo |-> r]

\* git branch -d|-D: -d refuses a branch that is not merged into HEAD (the
\* default branch, checked out at the repository root); both refuse a branch
\* that is checked out in a worktree
DeleteBranch(r, b, force) ==
    IF \/ b \notin r.branches
       \/ \E m \in r.live : r.wtBranch[m] = b
       \/ (~force /\ r.own[b] # r.inMain[b])
    THEN [ok |-> FALSE, repo |-> r]
    ELSE [ok |-> TRUE,
          repo |-> [r EXCEPT !.branches = @ \ {b}, !.own[b] = 0, !.inMain[b] = 0,
                             !.inTrack[b] = 0, !.inUp[b] = 0]]

SetWorktreeCreatedAt(r, n, t) == [r EXCEPT !.createdAt[n] = t]

SetWorktreeInitialCommit(r, n, c) == [r EXCEPT !.initialCommit[n] = <<c>>]

\* ------------------------------------------------------------ user configuration
FetchIntervalNever == -1

\* the default "5m" and every other positive interval, in clock ticks
FiveMinutes == 2

DefaultFetchInterval == "5m"

\* time.ParseDuration; an unparsable string yields 0
ParseDuration(s) ==
    CASE s = "5m" -> FiveMinutes
      [] s = "0"  -> 0
      [] OTHER    -> 0

\* per-repository override if set (and, for the remote, non-empty), else global
GetRemoteForRepo(u) ==
    IF u.repo.present /\ u.repo.remote # "" THEN u.repo.remote ELSE u.remote

GetFetchIntervalForRepo(u) ==
    LET global == IF u.fetchInterval = "" THEN DefaultFetchInterval ELSE u.fetchInterval
        str    == IF u.repo.present /\ u.repo.fetchInterval # "unset"
                  THEN u.repo.fetchInterval ELSE global
    IN IF str = "never" THEN FetchIntervalNever ELSE ParseDuration(str)

DefaultUserConfig ==
    [remote |-> "", fetchInterval |-> DefaultFetchInterval,
     repo |-> [present |-> FALSE, remote |-> "", fetchInterval |-> "unset"]]

\* whether time.ParseDuration accepts the string
ValidDuration(s) == s \in {"5m", "0"}

SetGlobal(u, key, value) ==
    IF key = "remote" THEN [u EXCEPT !.remote = value]
    ELSE [u EXCEPT !.fetchInterval = value]

UnsetGlobal(u, key) ==
    IF key = "remote" THEN [u EXCEPT !.remote = ""]
    ELSE [u EXCEPT !.fetchInterval = ""]

\* SetForRepo: the entry of the repository is created if there is none
SetForRepo(u, key, value) ==
    IF key = "remote" THEN [u EXCEPT !.repo.present = TRUE, !.repo.remote = value]
    ELSE [u EXCEPT !.repo.present = TRUE, !.repo.fetchInterval = value]

\* UnsetForRepo: an entry left with nothing set is removed
UnsetForRepo(u, key) ==
    LET cleared == IF key = "remote" THEN [u EXCEPT !.repo.remote = ""]
                   ELSE [u EXCEPT !.repo.fetchInterval = "unset"]
    IN IF ~u.repo.present THEN u
       ELSE IF cleared.repo.remote = "" /\ cleared.repo.fetchInterval = "unset"
       THEN [cleared EXCEPT !.repo.present = FALSE]
       ELSE cleared

\* Save then Load: an empty global fetch_interval is left out of the file and
\* read back as the default
SaveAndLoad(u) ==
    [u EXCEPT !.fetchInterval = IF @ = "" THEN DefaultFetchInterval ELSE @]

\* setConfig for `wt config [--global] <key> <value>`: a fetch_interval must
\* parse as a duration
setConfig(u, global, key, value) ==
    IF key = "fetch_interval" /\ ~ValidDuration(value)
    THEN [cfg |-> u, err |-> "fetch_interval must be a valid duration"]
    ELSE [cfg |-> SaveAndLoad(IF global THEN SetGlobal(u, key, value)
                              ELSE SetForRepo(u, key, value)),
          err |-> ""]

\* unsetConfig for `wt config [--global] --unset <key>`
unsetConfig(u, global, key) ==
    [cfg |-> SaveAndLoad(IF global THEN UnsetGlobal(u, key) ELSE UnsetForRepo(u, key)),
     err |-> ""]

\* ------------------------------------------------------------ comparison resolver
\* time.Since(lastFetch) < fetchInterval; a zero lastFetch (never fetched) is
\* further back than any interval
WithinInterval(r, interval) ==
    r.lastFetch # 0 /\ now - r.lastFetch < interval

\* git fetch <remote>: the tracking ref takes the remote's state if the fetch
\* succeeds; either way a fetch has been issued
FetchRemoteQuiet(r, fetchOk) ==
    IF fetchOk
    THEN [r EXCEPT !.inTrack = r.inUp, !.trackExists = TRUE,
                   !.fetchLog = [at |-> now, ok |-> TRUE]]
    ELSE [r EXCEPT !.fetchLog = [at |-> now, ok |-> FALSE]]

SetLastFetchTime(r) == [r EXCEPT !.lastFetch = now]

RefExists(r) == r.trackExists

\* fetchWithSpinner: fetch, and on success record the fetch time
\* git remote set-head <remote> --auto: the recorded HEAD of the remote is
\* brought up to date
UpdateRemoteHead(r) == [r EXCEPT !.headStale = FALSE]

fetchWithSpinner(r, fetchOk) ==
    IF fetchOk THEN UpdateRemoteHead(SetLastFetchTime(FetchRemoteQuiet(r, fetchOk)))
    ELSE FetchRemoteQuiet(r, fetchOk)

\* a resolution that looks at the last fetch time whatever the remote is
consultsLastFetchAlways(remote, interval) == interval # FetchIntervalNever

\* resolveComparisonRef: the last fetch time is read only in remote comparison
\* mode with fetching not disabled
consultsLastFetch(remote, interval) ==
    remote # "" /\ interval # FetchIntervalNever

\* a fetch policy that takes "never" for an interval of zero
fetchDueNeverIsZero(r, remote, interval) ==
    remote # "" /\ ~(interval > 0 /\ WithinInterval(r, interval))

\* a fetch policy that fetches on every invocation
fetchDueEveryTime(r, remote, interval) ==
    remote # "" /\ interval # FetchIntervalNever

\* resolveComparisonRef: a fetch is issued in remote comparison mode unless
\* fetching is disabled or the last recorded fetch is less than a positive
\* interval back
fetchDue(r, remote, interval) ==
    /\ consultsLastFetch(remote, interval)
    /\ ~(interval > 0 /\ WithinInterval(r, interval))

\* a resolution that takes the tracking ref without checking that it exists
comparisonRefUnchecked(r, remote) == IF remote # "" THEN "track" ELSE "local"

\* resolveComparisonRef: "track" for <remote>/<default> if a remote is
\* configured and the ref exists, else "local" for the default branch
comparisonRef(r, remote) ==
    IF remote # "" /\ RefExists(r) THEN "track" ELSE "local"

\* resolveComparisonRef (list, cleanup): the ref to compare with, the
\* repository after the fetch, whether a fetch was issued and whether the
\* last fetch time was read
resolveComparisonRef(r, fetchOk) ==
    LET remote   == GetRemoteForRepo(userCfg)
        interval == GetFetchIntervalForRepo(userCfg)
        doFetch  == fetchDue(r, remote, interval)
        r2       == IF doFetch THEN fetchWithSpinner(r, fetchOk) ELSE r
    IN [ref       |-> comparisonRef(r2, remote),
        repo      |-> r2,
        fetched   |-> doFetch,
        consulted |-> consultsLastFetch(remote, interval)]

\* the copy of the resolution inside runDelete
deleteComparisonRef(r, fetchOk) ==
    LET remote   == GetRemoteForRepo(userCfg)
        interval == GetFetchIntervalForRepo(userCfg)
        consult  == remote # "" /\ interval # FetchIntervalNever
        doFetch  == consult /\ ~(interval > 0 /\ WithinInterval(r, interval))
        r2       == IF ~doFetch THEN r
                    ELSE IF fetchOk THEN SetLastFetchTime(FetchRemoteQuiet(r, fetchOk))
                    ELSE FetchRemoteQuiet(r, fetchOk)
    IN [ref       |-> IF remote # "" /\ RefExists(r2) THEN "track" ELSE "local",
        repo      |-> r2,
        fetched   |-> doFetch,
        consulted |-> consult]

\* ------------------------------------------------------------ command results
NoResult ==
    [cmd |-> "none", name |-> 0, force |-> FALSE, keep |-> FALSE, dry |-> FALSE,
     err |-> "", hooks |-> <<>>, issues |-> <<>>, cands |-> <<>>, removed |-> {},
     failed |-> {}, warn |-> {}, ref |-> "", fetched |-> FALSE, consulted |-> FALSE,
     maxIndex |-> 0, index |-> 0, bound |-> 0, storeOk |-> TRUE, global |-> FALSE, key |-> "", value |-> "",
     cwd |-> 0, cd |-> FALSE, branch |-> 0]

\* the index taken to be the number of worktrees
runCreateMetadataByCount(r, n, branchName, maxIndex, storeOk) ==
    LET r1 == SetWorktreeCreatedAt(r, n, now)
        r2 == SetWorktreeInitialCommit(r1, n, GetCurrentCommit(r1, n))
    IN [repo |-> SetWorktreeIndex(r2, n, Cardinality(r2.live)),
        index |-> Cardinality(r2.live), err |-> "", bound |-> 0]

\* the error of the allocation dropped and its value stored
runCreateMetadataIgnoresError(r, n, branchName, maxIndex, storeOk) ==
    LET r1 == SetWorktreeCreatedAt(r, n, now)
        r2 == SetWorktreeInitialCommit(r1, n, GetCurrentCommit(r1, n))
        al == AllocateIndex(r2, maxIndex)
    IN [repo |-> SetWorktreeIndex(r2, n, al.idx), index |-> al.idx,
        err |-> "", bound |-> 0]

\* the index stored under the branch name instead of the worktree name
runCreateMetadataByBranch(r, n, branchName, maxIndex, storeOk) ==
    LET r1 == SetWorktreeCreatedAt(r, n, now)
        r2 == SetWorktreeInitialCommit(r1, n, GetCurrentCommit(r1, n))
        al == AllocateIndex(r2, maxIndex)
    IN IF al.err = ""
       THEN [repo |-> SetWorktreeIndex(r2, branchName, al.idx), index |-> al.idx,
             err |-> "", bound |-> 0]
       ELSE [repo |-> r2, index |-> 0, err |-> al.err, bound |-> al.bound]

\* ------------------------------------------------------------ wt create
\* the index handed to the post_create hooks though it could not be stored
runCreateMetadataKeepsUnstored(r, n, branchName, maxIndex, storeOk) ==
    LET r1 == SetWorktreeCreatedAt(r, n, now)
        r2 == SetWorktreeInitialCommit(r1, n, GetCurrentCommit(r1, n))
        al == AllocateIndex(r2, maxIndex)
    IN IF al.err # ""
       THEN [repo |-> r2, index |-> 0, err |-> al.err, bound |-> al.bound]
       ELSE [repo |-> IF storeOk THEN SetWorktreeIndex(r2, n, al.idx) ELSE r2,
             index |-> al.idx, err |-> "", bound |-> 0]

\* runCreate after the worktree is added: the creation time and the initial
\* commit are recorded, an index is allocated and stored; a failed allocation
\* or a failed store is a warning and the worktree has no index
runCreateMetadata(r, n, branchName, maxIndex, storeOk) ==
    LET r1 == SetWorktreeCreatedAt(r, n, now)
        r2 == SetWorktreeInitialCommit(r1, n, GetCurrentCommit(r1, n))
        al == AllocateIndex(r2, maxIndex)
    IN IF al.err # ""
       THEN [repo |-> r2, index |-> 0, err |-> al.err, bound |-> al.bound]
       ELSE IF ~storeOk
       THEN [repo |-> r2, index |-> 0, err |-> "could not store index", bound |-> 0]
       ELSE [repo |-> SetWorktreeIndex(r2, n, al.idx), index |-> al.idx,
             err |-> "", bound |-> 0]

\* a pre-create hook failure treated as a warning, like a post-create one
runCreatePreHookWarnsOnly(preErr) == FALSE

\* runCreate: a failing pre-create hook list aborts the creation
runCreatePreHookAborts(preErr) == preErr # ""

\* no check of the branch before git worktree add
branchPreconditionUnchecked(r, createBranch, branchName) == ""

\* the branch checks of runCreate: --branch must name an existing branch, and
\* without --branch the new branch must not exist yet
branchPrecondition(r, createBranch, branchName) ==
    IF createBranch # 0 /\ ~BranchExists(r, createBranch) THEN "branch does not exist"
    ELSE IF createBranch = 0 /\ BranchExists(r, branchName) THEN "branch already exists"
    ELSE ""

\* runCreate for `wt create n [--branch createBranch]`; createBranch = 0 when
\* the flag is not given, maxIndex is the index.max that config.Load reads from
\* .wt.yaml for this invocation, storeOk whether the index file can be
\* written.  Yields the repository and the result.
runCreate(r, n, createBranch, maxIndex, storeOk) ==
    LET branchName == IF createBranch # 0 THEN createBranch ELSE n
        res  == [NoResult EXCEPT !.cmd = "create", !.name = n, !.maxIndex = maxIndex,
                                 !.storeOk = storeOk, !.branch = createBranch]
        pre  == RunEvent("pre_create")
        preL == HookLog("pre_create", n, 0, pre.log)
        add  == IF createBranch # 0
                THEN CreateWorktreeFromBranch(r, n, createBranch)
                ELSE CreateWorktree(r, n, branchName)
        md   == runCreateMetadata(add.repo, n, branchName, maxIndex, storeOk)
        post == RunEvent("post_create")
        postL == HookLog("post_create", n, md.index, post.log)
    IN IF runCreatePreHookAborts(pre.err)
       THEN [repo |-> r,
             res |-> [res EXCEPT !.err = "pre-create hook failed", !.hooks = preL]]
       ELSE IF branchPrecondition(r, createBranch, branchName) # ""
       THEN [repo |-> r,
             res |-> [res EXCEPT !.err = branchPrecondition(r, createBranch, branchName),
                                 !.hooks = preL]]
       ELSE IF ~add.ok
       THEN [repo |-> add.repo,
             res |-> [res EXCEPT !.err = "failed to create worktree", !.hooks = preL]]
       ELSE [repo |-> md.repo,
             res |-> [res EXCEPT !.hooks = preL \o postL,
                                 !.index = md.index,
                                 !.bound = md.bound,
                                 !.warn = (IF md.err = "" THEN {} ELSE {md.err})
                                          \cup (IF post.err = "" THEN {}
                                                ELSE {"post-create hook failed"})]]

Create(n, createBranch, maxIndex, storeOk) ==
    /\ result.cmd = "none"
    /\ LET out == runCreate(Repo, n, createBranch, maxIndex, storeOk)
       IN /\ Install(out.repo)
          /\ result' = out.res
          /\ UNCHANGED <<now, cfg, scripts, userCfg, probe>>

\* ------------------------------------------------------------ wt delete
\* an index read again for the post_delete hooks, once the worktree is gone
postDeleteIndexReadAgain(idx, after, n) == GetWorktreeIndex(after, n)

\* the post_delete hooks get the environment built before the deletion, with
\* the index read then; the repository after the deletion is not consulted
postDeleteIndex(idx, after, n) == idx

\* the safety checks stopping at the first violated guard
runDeleteIssuesFirstOnly(hasChanges, ahead) ==
    IF hasChanges THEN <<"has uncommitted changes">>
    ELSE IF ahead > 0 THEN <<"has commits not merged">>
    ELSE <<>>

\* the safety checks of runDelete: every violated guard is listed
runDeleteIssues(hasChanges, ahead) ==
    (IF hasChanges THEN <<"has uncommitted changes">> ELSE <<>>)
    \o (IF ahead > 0 THEN <<"has commits not merged">> ELSE <<>>)

\* a failure of the pre-delete hooks taken as a warning in every case
runDeletePreHookNeverAborts(preErr, force) == FALSE

\* whether a failure of the pre-delete hooks ends runDelete
runDeletePreHookAborts(preErr, force) == preErr # "" /\ ~force

\* runDelete for `wt delete n [--force] [--keep-branch]`
runDelete(r, n, force, keepBranch, fetchOk) ==
    LET res    == [NoResult EXCEPT !.cmd = "delete", !.name = n, !.force = force,
                                   !.keep = keepBranch]
        branch == GetCurrentBranch(r, n)
        idx    == GetWorktreeIndex(r, n)
        \* safety checks (unless --force)
        hasChanges == HasUncommittedChanges(r, n)
        cmp    == deleteComparisonRef(r, fetchOk)
        ahead  == GetCommitsAhead(cmp.repo, n, cmp.ref)
        issues == runDeleteIssues(hasChanges, ahead)
        rg     == IF force THEN r ELSE cmp.repo
        resg   == IF force THEN res
                  ELSE [res EXCEPT !.ref = cmp.ref, !.fetched = cmp.fetched,
                                   !.consulted = cmp.consulted]
        pre    == RunEvent("pre_delete")
        preL   == HookLog("pre_delete", n, idx, pre.log)
        rm     == RemoveWorktree(rg, n, force)
        bd     == IF ~keepBranch /\ branch # 0
                  THEN DeleteBranch(rm.repo, branch, force)
                  ELSE [ok |-> TRUE, repo |-> rm.repo]
        post   == RunEvent("post_delete")
        postL  == HookLog("post_delete", n, postDeleteIndex(idx, bd.repo, n), post.log)
    IN IF n \notin r.live
       THEN [repo |-> r, res |-> [res EXCEPT !.err = "worktree does not exist"]]
       ELSE IF ~force /\ Len(issues) > 0
       THEN [repo |-> rg,
             res |-> [resg EXCEPT !.err = "worktree has uncommitted or unmerged changes",
                                  !.issues = issues]]
       ELSE IF runDeletePreHookAborts(pre.err, force)
       THEN [repo |-> rg,
             res |-> [resg EXCEPT !.err = "pre-delete hook failed", !.hooks = preL]]
       ELSE IF ~rm.ok
       THEN [repo |-> rg,
             res |-> [resg EXCEPT !.err = "failed to delete worktree", !.hooks = preL]]
       ELSE [repo |-> bd.repo,
             res |-> [resg EXCEPT !.hooks = preL \o postL,
                                  !.removed = {n},
                                  !.warn = (IF pre.err # "" THEN {"pre-delete hook failed"} ELSE {})
                                           \cup (IF ~bd.ok THEN {"failed to delete branch"} ELSE {})
                                           \cup (IF post.err # "" THEN {"post-delete hook failed"}
                                                 ELSE {})]]

\* the outcomes a fetch can have, where one would be issued
FetchOutcomes(r) ==
    IF resolveComparisonRef(r, TRUE).fetched THEN BOOLEAN ELSE {TRUE}

Delete(n, force, keepBranch) ==
    /\ result.cmd = "none"
    /\ \E fetchOk \in FetchOutcomes(Repo) :
        LET out == runDelete(Repo, n, force, keepBranch, fetchOk)
        IN /\ Install(out.repo)
           /\ result' = out.res
           /\ UNCHANGED <<now, cfg, scripts, userCfg, probe>>

\* ------------------------------------------------------------ wt cleanup
\* git worktree list: the managed worktrees in listing order
RECURSIVE SortedSeq(_)
SortedSeq(S) ==
    IF S = {} THEN <<>>
    ELSE LET m == CHOOSE x \in S : \A y \in S : x <= y
         IN <<m>> \o SortedSeq(S \ {m})

ListWorktrees(r) == SortedSeq(r.live)

\* the candidate test without the check of the commits ahead
IsCandidateIgnoresAhead(status) ==
    IF status.HasUncommittedChanges THEN FALSE
    ELSE IF status.IsNew THEN FALSE
    ELSE status.IsMerged

\* the candidate test without the check for a new worktree
IsCandidateIgnoresNew(status) ==
    IF status.HasUncommittedChanges THEN FALSE
    ELSE IF status.CommitsAhead > 0 THEN FALSE
    ELSE status.IsMerged

\* the candidate test of runCleanup's loop
IsCandidate(status) ==
    IF status.HasUncommittedChanges THEN FALSE
    ELSE IF status.IsNew THEN FALSE
    ELSE IF status.CommitsAhead > 0 THEN FALSE
    ELSE status.IsMerged

\* the candidate loop of runCleanup from worktree i on, in listing order;
\* branchOf[n] is the branch listed for n (0: detached), statusOf[n] its status
RECURSIVE SelectCandidates(_, _, _, _)
SelectCandidates(worktrees, i, branchOf, statusOf) ==
    IF i > Len(worktrees) THEN <<>>
    ELSE LET n    == worktrees[i]
             rest == SelectCandidates(worktrees, i + 1, branchOf, statusOf)
         IN IF branchOf[n] = 0 THEN rest
            ELSE IF IsCandidate(statusOf[n]) THEN <<n>> \o rest
            ELSE rest

FindCandidates(r, ref) ==
    LET mergedCache == GetMergedBranches(r, ref)
    IN SelectCandidates(ListWorktrees(r), 1, r.wtBranch,
           [n \in r.live |-> GetWorktreeStatus(r, n, r.wtBranch[n], ref, mergedCache)])

\* a pre_delete hook failure that skips the candidate even with --force
cleanupPreHookSkipsAlways(preErr, force) == preErr # ""

\* the deletion loop of runCleanup: a failing pre_delete hook list skips the
\* candidate unless --force
cleanupPreHookSkips(preErr, force) == preErr # "" /\ ~force

\* one round of the deletion loop of runCleanup, for candidate c: pre_delete
\* hooks (a failure skips the candidate unless --force), git worktree remove,
\* git branch -d|-D unless --keep-branch, post_delete hooks; whatever fails
\* is printed and the loop goes on
DeleteCandidate(r0, c, force, keepBranch, acc) ==
    LET branch == r0.wtBranch[c]
        idx    == GetWorktreeIndex(acc.repo, c)
        pre    == RunEvent("pre_delete")
        preL   == HookLog("pre_delete", c, idx, pre.log)
        rm     == RemoveWorktree(acc.repo, c, force)
        bd     == IF ~keepBranch /\ branch # 0
                  THEN DeleteBranch(rm.repo, branch, force)
                  ELSE [ok |-> TRUE, repo |-> rm.repo]
        post   == RunEvent("post_delete")
        postL  == HookLog("post_delete", c, postDeleteIndex(idx, bd.repo, c), post.log)
    IN IF cleanupPreHookSkips(pre.err, force)
       THEN [acc EXCEPT !.hooks = @ \o preL,
                        !.failed = @ \cup {c},
                        !.warn = @ \cup {"skipped: pre-delete hook failed"}]
       ELSE IF ~rm.ok
       THEN [acc EXCEPT !.hooks = @ \o preL,
                        !.failed = @ \cup {c},
                        !.warn = @ \cup {"failed to delete worktree"}]
       ELSE [repo    |-> bd.repo,
             hooks   |-> acc.hooks \o preL \o postL,
             removed |-> acc.removed \cup {c},
             failed  |-> acc.failed
                         \cup (IF pre.err # "" \/ ~bd.ok \/ post.err # "" THEN {c} ELSE {}),
             warn    |-> acc.warn
                         \cup (IF pre.err # "" THEN {"pre-delete hook failed"} ELSE {})
                         \cup (IF ~bd.ok THEN {"failed to delete branch"} ELSE {})
                         \cup (IF post.err # "" THEN {"post-delete hook failed"}
                               ELSE {})]

\* a deletion loop that gives up at the first candidate with a failure
RECURSIVE DeleteCandidatesStopsOnFailure(_, _, _, _, _, _)
DeleteCandidatesStopsOnFailure(r0, cands, i, force, keepBranch, acc) ==
    IF i > Len(cands) \/ acc.failed # {} THEN acc
    ELSE DeleteCandidatesStopsOnFailure(r0, cands, i + 1, force, keepBranch,
                                        DeleteCandidate(r0, cands[i], force, keepBranch, acc))

\* a deletion loop that looks up its i-th candidate among the candidates
\* still listed, the list shrinking as worktrees are removed
RECURSIVE DeleteCandidatesOverLiveList(_, _, _, _, _, _)
DeleteCandidatesOverLiveList(r0, cands, i, force, keepBranch, acc) ==
    LET listed == SelectSeq(cands, LAMBDA c : c \in acc.repo.live)
    IN IF i > Len(listed) THEN acc
       ELSE DeleteCandidatesOverLiveList(r0, cands, i + 1, force, keepBranch,
                DeleteCandidate(r0, listed[i], force, keepBranch, acc))

\* the deletion loop of runCleanup over the candidates, in their order
RECURSIVE DeleteCandidates(_, _, _, _, _, _)
DeleteCandidates(r0, cands, i, force, keepBranch, acc) ==
    IF i > Len(cands) THEN acc
    ELSE DeleteCandidates(r0, cands, i + 1, force, keepBranch,
                          DeleteCandidate(r0, cands[i], force, keepBranch, acc))

\* the working directory is inside the directory of one of the candidates;
\* cwd is the worktree the command was started in, 0 outside every worktree
inDeletedWorktree(cands, cwd) == \E i \in 1..Len(cands) : cands[i] = cwd

\* the caller is sent back to the repository root (the root is written to
\* WT_CD_FILE, or the cd hint is printed) at the end of the deletion loop
signalsReturn(cands, cwd, removed) ==
    inDeletedWorktree(cands, cwd) /\ Cardinality(removed) > 0

\* a dry run that goes on to the deletion loop
runCleanupDryRunDeletes(r, cwd, dryRun, force, keepBranch, confirm, fetchOk) ==
    LET setup == resolveComparisonRef(r, fetchOk)
        r0    == setup.repo
        cands == FindCandidates(r0, setup.ref)
        res   == [NoResult EXCEPT !.cmd = "cleanup", !.force = force, !.keep = keepBranch,
                                  !.dry = dryRun, !.ref = setup.ref,
                                  !.fetched = setup.fetched,
                                  !.consulted = setup.consulted, !.cands = cands,
                                  !.cwd = cwd]
        done  == DeleteCandidates(r0, cands, 1, force, keepBranch,
                                  [repo |-> r0, hooks |-> <<>>, removed |-> {}, failed |-> {},
                                   warn |-> {}])
    IN IF Len(cands) = 0 THEN [repo |-> r0, res |-> res]
       ELSE IF ~force /\ ~confirm
       THEN [repo |-> r0, res |-> [res EXCEPT !.err = "aborted"]]
       ELSE [repo |-> done.repo,
             res |-> [res EXCEPT !.hooks = done.hooks, !.removed = done.removed,
                                 !.failed = done.failed,
                                 !.warn = done.warn,
                                 !.cd = signalsReturn(cands, cwd, done.removed)]]

\* runCleanup for `wt cleanup [--dry-run] [--force] [--keep-branch]`; confirm is
\* the answer to the prompt
runCleanup(r, cwd, dryRun, force, keepBranch, confirm, fetchOk) ==
    LET setup == resolveComparisonRef(r, fetchOk)
        r0    == setup.repo
        cands == FindCandidates(r0, setup.ref)
        res   == [NoResult EXCEPT !.cmd = "cleanup", !.force = force, !.keep = keepBranch,
                                  !.dry = dryRun, !.ref = setup.ref,
                                  !.fetched = setup.fetched,
                                  !.consulted = setup.consulted, !.cands = cands,
                                  !.cwd = cwd]
        done  == DeleteCandidates(r0, cands, 1, force, keepBranch,
                                  [repo |-> r0, hooks |-> <<>>, removed |-> {}, failed |-> {},
                                   warn |-> {}])
    IN IF Len(cands) = 0 THEN [repo |-> r0, res |-> res]
       ELSE IF dryRun THEN [repo |-> r0, res |-> res]
       ELSE IF ~force /\ ~confirm
       THEN [repo |-> r0, res |-> [res EXCEPT !.err = "aborted"]]
       ELSE [repo |-> done.repo,
             res |-> [res EXCEPT !.hooks = done.hooks, !.removed = done.removed,
                                 !.failed = done.failed,
                                 !.warn = done.warn,
                                 !.cd = signalsReturn(cands, cwd, done.removed)]]

\* a cleanup is run from the prompt, or right after a dry run has shown what
\* it would remove
Cleanup(cwd, dryRun, force, keepBranch, confirm) ==
    /\ result.cmd = "none" \/ (result.cmd = "cleanup" /\ result.dry)
    /\ cwd = 0 \/ cwd \in live
    /\ \E fetchOk \in FetchOutcomes(Repo) :
        LET out == runCleanup(Repo, cwd, dryRun, force, keepBranch, confirm, fetchOk)
        IN /\ Install(out.repo)
           /\ result' = out.res
           /\ UNCHANGED <<now, cfg, scripts, userCfg, probe>>

\* ------------------------------------------------------------ wt list
\* runList: resolves the comparison ref (SetupCompare) and shows the
\* worktrees; it may be run right after a wt config
runList(r, fetchOk) ==
    LET setup == resolveComparisonRef(r, fetchOk)
    IN [repo |-> setup.repo,
        res  |-> [NoResult EXCEPT !.cmd = "list", !.ref = setup.ref,
                                  !.fetched = setup.fetched,
                                  !.consulted = setup.consulted]]

List ==
    /\ result.cmd \in {"none", "config"}
    /\ \E fetchOk \in FetchOutcomes(Repo) :
        LET out == runList(Repo, fetchOk)
        IN /\ Install(out.repo)
           /\ result' = out.res
           /\ UNCHANGED <<now, cfg, scripts, userCfg, probe>>

\* ------------------------------------------------------------ wt config
ConfigKeys == {"remote", "fetch_interval"}

\* the values given on the command line
ConfigValues(key) ==
    IF key = "remote" THEN {"", "origin"} ELSE {DefaultFetchInterval, "0", "never"}

ConfigSet(global, key, value) ==
    /\ result.cmd = "none"
    /\ LET out == setConfig(userCfg, global, key, value)
       IN /\ userCfg' = out.cfg
          /\ result' = [NoResult EXCEPT !.cmd = "config", !.global = global, !.key = key,
                                        !.value = value, !.err = out.err]
    /\ UNCHANGED <<gitVars, metaVars, netVars, now, cfg, scripts, probe>>

ConfigUnset(global, key) ==
    /\ result.cmd = "none"
    /\ LET out == unsetConfig(userCfg, global, key)
       IN /\ userCfg' = out.cfg
          /\ result' = [NoResult EXCEPT !.cmd = "config", !.global = global, !.key = key,
                                        !.value = "unset", !.err = out.err]
    /\ UNCHANGED <<gitVars, metaVars, netVars, now, cfg, scripts, probe>>

\* ------------------------------------------------------------ the user's own git work
\* a commit in worktree n; it may or may not leave uncommitted changes behind
Commit(n) ==
    /\ result.cmd = "none"
    /\ n \in live
    /\ wtBranch[n] # 0
    /\ own[wtBranch[n]] < MaxCommits
    /\ own' = [own EXCEPT ![wtBranch[n]] = @ + 1]
    /\ \E clean \in BOOLEAN : dirty' = IF clean THEN dirty \ {n} ELSE dirty
    /\ UNCHANGED <<result, live, locked, wtBranch, branches, inMain, inTrack, inUp, trackExists, index,
                   initialCommit, createdAt, lastFetch, fetchLog, headStale, now, cfg, scripts, userCfg, probe>>

\* an edit or a new file in worktree n
Edit(n) ==
    /\ result.cmd = "none"
    /\ n \in live
    /\ n \notin dirty
    /\ dirty' = dirty \cup {n}
    /\ UNCHANGED <<result, live, locked, wtBranch, branches, own, inMain, inTrack, inUp, trackExists,
                   index, initialCommit, createdAt, lastFetch, fetchLog, headStale, now, cfg, scripts, userCfg, probe>>

\* the uncommitted changes of worktree n are thrown away
Discard(n) ==
    /\ result.cmd = "none"
    /\ n \in dirty
    /\ dirty' = dirty \ {n}
    /\ UNCHANGED <<result, live, locked, wtBranch, branches, own, inMain, inTrack, inUp, trackExists,
                   index, initialCommit, createdAt, lastFetch, fetchLog, headStale, now, cfg, scripts, userCfg, probe>>

\* git merge b on the default branch at the repository root
MergeToMain(b) ==
    /\ result.cmd = "none"
    /\ b \in branches
    /\ inMain[b] < own[b]
    /\ inMain' = [inMain EXCEPT ![b] = own[b]]
    /\ UNCHANGED <<result, live, locked, wtBranch, branches, own, inTrack, inUp, trackExists, dirty,
                   index, initialCommit, createdAt, lastFetch, fetchLog, headStale, now, cfg, scripts, userCfg, probe>>

\* the command has returned and its output has been read: the next command or
\* the user's next git operation starts from here
Return ==
    /\ result.cmd # "none"
    /\ result' = NoResult
    /\ UNCHANGED <<live, locked, wtBranch, branches, own, inMain, inTrack, inUp, trackExists,
                   dirty, index, initialCommit, createdAt, lastFetch, fetchLog, headStale, now, cfg, scripts,
                   userCfg, probe>>

\* ------------------------------------------------------------ configurations
HookList(k) == [i \in 1..k |-> i]

WtConfig(k) ==
    [pre_create |-> HookList(k), post_create |-> HookList(k),
     pre_delete |-> HookList(k), post_delete |-> HookList(k)]

\* what the scripts of a list of k entries do
AllOk(k)        == [i \in 1..k |-> "ok"]
FirstMissing(k) == [i \in 1..k |-> IF i = 1 THEN "missing" ELSE "ok"]
LastFails(k)    == [i \in 1..k |-> IF i = k THEN "exit1" ELSE "ok"]

\* every script succeeds, or the scripts of one event have a failing one
Scripts(k) ==
    LET ok == [e \in Events |-> AllOk(k)]
    IN IF k = 0 THEN { ok }
       ELSE { ok,
              [ok EXCEPT !["pre_create"]  = FirstMissing(k)],
              [ok EXCEPT !["post_create"] = LastFails(k)],
              [ok EXCEPT !["pre_delete"]  = LastFails(k)],
              [ok EXCEPT !["post_delete"] = FirstMissing(k)] }

Setups ==
    UNION { { [cfg |-> WtConfig(k), scripts |-> sc] : sc \in Scripts(k) } : k \in {0, MaxHooks} }

\* the values of index.max tried: unbounded, and one less than the names there are
IndexMaxes == {0, MaxNames - 1}

ProbeIdle == [kind |-> "idle"]

\* ------------------------------------------------------------ lifecycle specification
\* a repository with no worktree yet, never fetched
EmptyRepo ==
    /\ live = {}
    /\ locked = {}
    /\ wtBranch = [n \in Names |-> 0]
    /\ branches = {}
    /\ own = [n \in Names |-> 0]
    /\ inMain = [n \in Names |-> 0]
    /\ inTrack = [n \in Names |-> 0]
    /\ inUp = [n \in Names |-> 0]
    /\ dirty = {}
    /\ index = [n \in Names |-> 0]
    /\ initialCommit = [n \in Names |-> <<>>]
    /\ createdAt = [n \in Names |-> 0]
    /\ lastFetch = 0
    /\ fetchLog = NoFetch
    /\ headStale = FALSE
    /\ now = 1

\* a repository with .wt.yaml, the user configuration at its defaults (no
\* remote: comparison is local)
Init ==
    /\ EmptyRepo
    /\ trackExists = FALSE
    /\ \E su \in Setups : cfg = su.cfg /\ scripts = su.scripts
    /\ userCfg = DefaultUserConfig
    /\ result = NoResult
    /\ probe = ProbeIdle

Next ==
    \/ \E n \in Names, createBranch \in {0} \cup Names, maxIndex \in IndexMaxes :
          Create(n, createBranch, maxIndex, TRUE)
    \/ \E n \in Names, force \in BOOLEAN, keepBranch \in BOOLEAN : Delete(n, force, keepBranch)
    \/ \E dryRun \in BOOLEAN, force \in BOOLEAN, keepBranch \in BOOLEAN, confirm \in BOOLEAN :
          Cleanup(0, dryRun, force, keepBranch, confirm)
    \/ \E n \in Names : Commit(n)
    \/ \E n \in Names : Edit(n)
    \/ \E n \in Names : Discard(n)
    \/ \E b \in Names : MergeToMain(b)
    \/ Return

Spec == Init /\ [][Next]_vars

\* ------------------------------------------------------------ remote comparison specification
\* the branch is merged in the remote repository (a pull request is merged)
UpstreamMerge(b) ==
    /\ result.cmd = "none"
    /\ b \in branches
    /\ inUp[b] < own[b]
    /\ inUp' = [inUp EXCEPT ![b] = own[b]]
    /\ UNCHANGED <<result, live, locked, wtBranch, branches, own, inMain, inTrack, trackExists, dirty,
                   index, initialCommit, createdAt, lastFetch, fetchLog, headStale, now, cfg, scripts, userCfg,
                   probe>>

\* time passes, between commands or between a dry run and the cleanup after it
Tick ==
    /\ result.cmd = "none" \/ (result.cmd = "cleanup" /\ result.dry)
    /\ now < MaxTime
    /\ now' = now + 1
    /\ UNCHANGED <<result, live, locked, wtBranch, branches, own, inMain, inTrack, inUp, trackExists,
                   dirty, index, initialCommit, createdAt, lastFetch, fetchLog, headStale, cfg, scripts, userCfg,
                   probe>>

\* user configurations with a remote: the default interval, always fetch, never fetch
RemoteConfigs ==
    { [DefaultUserConfig EXCEPT !.remote = "origin", !.fetchInterval = f] :
        f \in {DefaultFetchInterval, "0", "never"} }

\* a repository with hooks that succeed and a remote configured; the tracking
\* ref exists if the repository was cloned or fetched by hand before
InitRemote ==
    /\ EmptyRepo
    /\ trackExists \in BOOLEAN
    /\ cfg = WtConfig(MaxHooks)
    /\ scripts = [e \in Events |-> AllOk(MaxHooks)]
    /\ userCfg \in RemoteConfigs
    /\ result = NoResult
    /\ probe = ProbeIdle

NextRemote ==
    \/ \E n \in Names : Create(n, 0, 0, TRUE)
    \/ \E n \in Names : Delete(n, FALSE, FALSE)
    \/ \E dryRun \in BOOLEAN : Cleanup(0, dryRun, FALSE, FALSE, TRUE)
    \/ \E n \in Names : Commit(n)
    \/ \E b \in Names : UpstreamMerge(b)
    \/ Tick
    \/ Return

SpecRemote == InitRemote /\ [][NextRemote]_vars

\* ------------------------------------------------------------ batch specification
\* a repository in which every name is a worktree on its own branch with one
\* commit made since it was created; each branch is merged or not into the
\* default branch and into the tracking ref, and each worktree may have
\* uncommitted changes and may be locked. Comparison is local, or against
\* a remote that is never fetched.
BatchConfigs ==
    { DefaultUserConfig,
      [DefaultUserConfig EXCEPT !.remote = "origin", !.fetchInterval = "never"] }

InitBatch ==
    /\ live = Names
    /\ locked \in SUBSET Names
    /\ wtBranch = [n \in Names |-> n]
    /\ branches = Names
    /\ own = [n \in Names |-> 1]
    /\ inMain \in [Names -> 0..1]
    /\ inTrack \in [Names -> 0..1]
    /\ inUp = inTrack
    /\ trackExists = TRUE
    /\ dirty \in SUBSET Names
    /\ index = [n \in Names |-> n]
    /\ initialCommit = [n \in Names |-> <<0>>]
    /\ createdAt = [n \in Names |-> 1]
    /\ lastFetch = 0
    /\ fetchLog = NoFetch
    /\ headStale = FALSE
    /\ now = 2
    /\ \E su \in Setups : cfg = su.cfg /\ scripts = su.scripts
    /\ userCfg \in BatchConfigs
    /\ result = NoResult
    /\ probe = ProbeIdle

NextBatch ==
    \/ \E dryRun \in BOOLEAN, force \in BOOLEAN, keepBranch \in BOOLEAN, confirm \in BOOLEAN :
          Cleanup(0, dryRun, force, keepBranch, confirm)
    \/ Return

SpecBatch == InitBatch /\ [][NextBatch]_vars

\* wt cleanup started from the repository root or from inside any of the
\* worktrees, on the drawn two-worktree repositories compared against the
\* local default branch
InitCwd ==
    /\ InitBatch
    /\ userCfg = DefaultUserConfig

NextCwd ==
    \/ \E cwd \in 0..MaxNames, dryRun \in BOOLEAN, force \in BOOLEAN, confirm \in BOOLEAN :
          Cleanup(cwd, dryRun, force, FALSE, confirm)
    \/ Return

SpecCwd == InitCwd /\ [][NextCwd]_vars

\* ------------------------------------------------------------ index store specification
\* creations and forced deletions in a repository whose hooks succeed; the
\* index file of a new worktree may fail to be written
InitCreate ==
    /\ EmptyRepo
    /\ trackExists = FALSE
    /\ cfg = WtConfig(MaxHooks)
    /\ scripts = [e \in Events |-> AllOk(MaxHooks)]
    /\ userCfg = DefaultUserConfig
    /\ result = NoResult
    /\ probe = ProbeIdle

NextCreate ==
    \/ \E n \in Names, maxIndex \in IndexMaxes, storeOk \in BOOLEAN :
          Create(n, 0, maxIndex, storeOk)
    \/ \E n \in Names : Delete(n, TRUE, FALSE)
    \/ \E n \in Names : Commit(n)
    \/ Return

SpecCreate == InitCreate /\ [][NextCreate]_vars

\* ------------------------------------------------------------ comparison specification
\* user configurations as the file may hold them: a global remote or none, a
\* global interval, and no entry for the repository, or one written by hand
HandWritten ==
    { [present |-> FALSE, remote |-> "", fetchInterval |-> "unset"],
      [present |-> TRUE, remote |-> "", fetchInterval |-> "never"],
      [present |-> TRUE, remote |-> "origin", fetchInterval |-> "unset"] }

CompareConfigs ==
    { [remote |-> rem, fetchInterval |-> f, repo |-> rp] :
        rem \in {"", "origin"}, f \in {DefaultFetchInterval, "0", "never"}, rp \in HandWritten }

\* a repository whose worktrees all have merged commits and uncommitted
\* changes: no command removes anything, every command resolves the
\* comparison ref
InitCompare ==
    /\ live = Names
    /\ locked = {}
    /\ wtBranch = [n \in Names |-> n]
    /\ branches = Names
    /\ own = [n \in Names |-> 1]
    /\ inMain = [n \in Names |-> 1]
    /\ inTrack = [n \in Names |-> 1]
    /\ inUp = [n \in Names |-> 1]
    /\ trackExists \in BOOLEAN
    /\ dirty = Names
    /\ index = [n \in Names |-> n]
    /\ initialCommit = [n \in Names |-> <<0>>]
    /\ createdAt = [n \in Names |-> 1]
    /\ lastFetch = 0
    /\ fetchLog = NoFetch
    /\ headStale \in BOOLEAN
    /\ now = 1
    /\ cfg = WtConfig(0)
    /\ scripts = [e \in Events |-> AllOk(0)]
    /\ userCfg \in CompareConfigs
    /\ result = NoResult
    /\ probe = ProbeIdle

NextCompare ==
    \/ List
    \/ \E dryRun \in BOOLEAN : Cleanup(0, dryRun, FALSE, FALSE, TRUE)
    \/ \E n \in Names : Delete(n, FALSE, FALSE)
    \/ \E global \in BOOLEAN, key \in ConfigKeys :
          \E value \in ConfigValues(key) : ConfigSet(global, key, value)
    \/ \E global \in BOOLEAN, key \in ConfigKeys : ConfigUnset(global, key)
    \/ Tick
    \/ Return

SpecCompare == InitCompare /\ [][NextCompare]_vars

\* ------------------------------------------------------------ hook list specification
\* the scripts a hook list can name
HookScripts == 1..(MaxHooks + 1)

\* the lists of distinct scripts
HookLists ==
    UNION { { e \in [1..k -> HookScripts] : \A i, j \in 1..k : i # j => e[i] # e[j] } :
            k \in 0..(MaxHooks + 1) }

\* Run on any list, with scripts that do anything
InitHooks ==
    /\ EmptyRepo
    /\ trackExists = FALSE
    /\ cfg = WtConfig(0)
    /\ scripts = [e \in Events |-> AllOk(0)]
    /\ userCfg = DefaultUserConfig
    /\ result = NoResult
    /\ \E entries \in HookLists, oc \in [HookScripts -> Outcomes] :
          probe = RunStart(entries, oc)

\* the next iteration of the loop of Run
HookStep ==
    /\ ~probe.done
    /\ probe' = RunStep(probe)
    /\ UNCHANGED <<live, locked, wtBranch, branches, own, inMain, inTrack, inUp, trackExists, dirty,
                   index, initialCommit, createdAt, lastFetch, fetchLog, headStale, now, cfg, scripts, userCfg,
                   result>>

NextHooks == HookStep

SpecHooks == InitHooks /\ [][NextHooks]_vars

\* ------------------------------------------------------------ candidate selection specification
\* every status a worktree can be reported with
Statuses ==
    [HasUncommittedChanges : BOOLEAN, CommitsAhead : 0..MaxCommits,
     IsMerged : BOOLEAN, IsNew : BOOLEAN]

\* the managed worktrees, each on its branch, with any statuses
InitSelect ==
    /\ EmptyRepo
    /\ trackExists = FALSE
    /\ cfg = WtConfig(0)
    /\ scripts = [e \in Events |-> AllOk(0)]
    /\ userCfg = DefaultUserConfig
    /\ result = NoResult
    /\ \E st \in [Names -> Statuses] :
          probe = [kind |-> "select", status |-> st, cands |-> <<>>, done |-> FALSE]

\* the candidate loop of runCleanup over the worktrees in listing order
Select ==
    /\ ~probe.done
    /\ probe' = [probe EXCEPT
                   !.cands = SelectCandidates(SortedSeq(Names), 1, [n \in Names |-> n],
                                              probe.status),
                   !.done = TRUE]
    /\ UNCHANGED <<live, locked, wtBranch, branches, own, inMain, inTrack, inUp, trackExists, dirty,
                   index, initialCommit, createdAt, lastFetch, fetchLog, headStale, now, cfg, scripts, userCfg,
                   result>>

NextSelect == Select

SpecSelect == InitSelect /\ [][NextSelect]_vars

\* ------------------------------------------------------------ properties
Range(f) == { f[i] : i \in DOMAIN f }

\* the indexes held by the live worktrees other than n
OtherIndexes(n) == { index[m] : m \in { k \in live \ {n} : index[k] # 0 } }

\* C1: no two live worktrees hold the same index.
IndexesUnique ==
    \A n \in live, m \in live :
        (n # m /\ index[n] # 0 /\ index[m] # 0) => index[n] # index[m]

\* every name is a live worktree holding an index
IndexesUniqueWitness ==
    /\ live = Names
    /\ \A n \in Names : index[n] # 0

\* C2: the index a create stores is the smallest integer >= 1 that no other
\* live worktree holds, so an index freed by a removal is given out again.
AllocatesSmallestUnused ==
    (result.cmd = "create" /\ result.err = "" /\ result.bound = 0) =>
        /\ index[result.name] = result.index
        /\ result.index >= 1
        /\ result.index \notin OtherIndexes(result.name)
        /\ \A k \in 1..(result.index - 1) : k \in OtherIndexes(result.name)

\* a create received index 1 while another worktree holds index 2: the index
\* of a removed worktree was reused
AllocatesSmallestUnusedWitness ==
    /\ result.cmd = "create"
    /\ result.err = ""
    /\ result.index = 1
    /\ 2 \in OtherIndexes(result.name)

\* C3: with index.max = N > 0 and every value 1..N held by another live
\* worktree, allocation fails with the exhausted error naming N (create warns
\* and stores no index); an allocation that succeeds yields a value >= 1 and,
\* with index.max > 0, <= index.max.
AllocationBounded ==
    (result.cmd = "create" /\ result.err = "") =>
        /\ (result.maxIndex > 0 /\ \A k \in 1..result.maxIndex : k \in OtherIndexes(result.name))
              => /\ "no available index" \in result.warn
                 /\ result.bound = result.maxIndex
                 /\ result.index = 0
                 /\ index[result.name] = 0
        /\ result.bound = 0
              => /\ result.index >= 1
                 /\ result.maxIndex > 0 => result.index <= result.maxIndex
                 /\ index[result.name] = result.index

\* a create with index.max = MaxNames - 1 found every index in use
AllocationBoundedWitness ==
    /\ result.cmd = "create"
    /\ result.err = ""
    /\ result.maxIndex = MaxNames - 1
    /\ result.bound = MaxNames - 1
    /\ "no available index" \in result.warn
    /\ OtherIndexes(result.name) = 1..(MaxNames - 1)

\* C4: the index of a worktree does not change while the worktree exists,
\* whatever is created, deleted or cleaned up.
IndexStable ==
    [][ \A n \in Names :
           (n \in live /\ n \in live' /\ index[n] # 0) => index'[n] = index[n] ]_vars

\* a worktree was removed while another one holds index 2
IndexStableWitness ==
    /\ result.cmd \in {"delete", "cleanup"}
    /\ result.removed # {}
    /\ \E m \in live : index[m] = 2

\* C5: the candidate loop selects a worktree if and only if it is not dirty,
\* not new, has no commit ahead and is merged; a status that differs from a
\* candidate's in one of the four is not selected.
Conjunction(st) ==
    /\ st.HasUncommittedChanges = FALSE
    /\ st.IsNew = FALSE
    /\ st.CommitsAhead = 0
    /\ st.IsMerged = TRUE

\* the statuses that differ from st in exactly one of the four conditions
Flips(st) ==
    { [st EXCEPT !.HasUncommittedChanges = ~@], [st EXCEPT !.IsNew = ~@],
      [st EXCEPT !.IsMerged = ~@] }
    \cup { [st EXCEPT !.CommitsAhead = a] : a \in (0..MaxCommits) \ {st.CommitsAhead} }

CandidateIffConjunction ==
    (probe.kind = "select" /\ probe.done) =>
        \A n \in Names :
            /\ (n \in Range(probe.cands)) <=> Conjunction(probe.status[n])
            /\ (n \in Range(probe.cands)) =>
                  \A m \in Names : probe.status[m] \in Flips(probe.status[n])
                                      => m \notin Range(probe.cands)

\* one worktree is selected, another that differs from it only in having a
\* commit ahead is not
CandidateIffConjunctionWitness ==
    /\ probe.kind = "select"
    /\ probe.done
    /\ probe.cands = <<1>>
    /\ probe.status[2] = [probe.status[1] EXCEPT !.CommitsAhead = 1]

\* a step in which a cleanup that is not a dry run ran right after a dry run
CleanupAfterDryRunStep ==
    /\ result.cmd = "cleanup"
    /\ result.dry
    /\ result'.cmd = "cleanup"
    /\ ~result'.dry

\* C6 as amended: a dry-run cleanup removes no worktree and no branch, runs no
\* hook and changes no metadata of a worktree; it changes the tracking ref and
\* the last-fetch time only by the fetch of the comparison resolver.  A cleanup
\* run after it on the unchanged repository computes the same candidates unless
\* its own fetch changes the tracking ref.
DryRunOnlyFetches ==
    [][ /\ (result'.cmd = "cleanup" /\ result'.dry) =>
              /\ UNCHANGED <<gitVars, metaVars, inUp>>
              /\ result'.hooks = <<>>
              /\ result'.removed = {}
              /\ ~result'.fetched => UNCHANGED netVars
        /\ (CleanupAfterDryRunStep /\ UNCHANGED <<inTrack, trackExists>>) =>
              result'.cands = result.cands ]_vars

\* a dry run fetched, moved the tracking ref and listed a candidate, and the
\* worktree and its branch are still there
DryRunOnlyFetchesWitness ==
    /\ result.cmd = "cleanup"
    /\ result.dry
    /\ result.fetched
    /\ lastFetch = now
    /\ Len(result.cands) > 0
    /\ \A c \in Range(result.cands) : c \in live /\ wtBranch[c] \in branches

\* C6 as stated: a dry-run cleanup changes no ref and no persisted metadata,
\* and a cleanup after it on the unchanged repository computes the same
\* candidates.
DryRunMutatesNothing ==
    [][ /\ (result'.cmd = "cleanup" /\ result'.dry) =>
              /\ UNCHANGED <<gitVars, metaVars, netVars>>
              /\ result'.hooks = <<>>
        /\ CleanupAfterDryRunStep => result'.cands = result.cands ]_vars

\* the status cleanup computes for worktree n of repository r against the
\* local default branch
LocalStatus(r, n) ==
    GetWorktreeStatus(r, n, r.wtBranch[n], "local", GetMergedBranches(r, "local"))

\* worktree n is new, and merged with no commit ahead
FreshAndMerged(n) ==
    /\ n \in live
    /\ LocalStatus(Repo, n).IsNew
    /\ LocalStatus(Repo, n).IsMerged
    /\ LocalStatus(Repo, n).CommitsAhead = 0

AheadAtDelete(n) ==
    own[wtBranch[n]]
      - (IF result'.ref = "track" THEN inTrack'[wtBranch[n]] ELSE inMain[wtBranch[n]])

\* the guards that worktree n violates, as the error lists them
ViolatedGuards(n) ==
    (IF n \in dirty THEN <<"has uncommitted changes">> ELSE <<>>)
    \o (IF AheadAtDelete(n) > 0 THEN <<"has commits not merged">> ELSE <<>>)

\* a step in which wt delete ran on a live worktree
DeleteStep ==
    /\ result.cmd = "none"
    /\ result'.cmd = "delete"
    /\ result'.name \in live

\* C8: without --force, a delete of a worktree that is dirty or has commits
\* ahead of the comparison ref fails with one error listing every violated
\* guard; no hook has run, the worktree and its branch are still there.
GuardedDeleteFails ==
    [][ (DeleteStep /\ ~result'.force /\ ViolatedGuards(result'.name) # <<>>) =>
            /\ result'.err = "worktree has uncommitted or unmerged changes"
            /\ result'.issues = ViolatedGuards(result'.name)
            /\ result'.hooks = <<>>
            /\ result'.removed = {}
            /\ result'.name \in live'
            /\ wtBranch[result'.name] \in branches'
            /\ UNCHANGED <<gitVars, metaVars>> ]_vars

\* a delete failed on a worktree that violates both guards
GuardedDeleteFailsWitness ==
    /\ result.cmd = "delete"
    /\ ~result.force
    /\ Len(result.issues) = 2
    /\ result.name \in live
    /\ result.name \in dirty

\* the events of the hooks a command ran
HookEvents(hooks) == { hooks[i].ev : i \in DOMAIN hooks }

\* C9: when the pre-delete hooks fail, a delete without --force returns an
\* error, leaves the worktree and its branch and runs no post-delete hook; a
\* delete with --force warns and removes the worktree.
PreDeleteFailureAborts ==
    [][ (DeleteStep /\ RunEvent("pre_delete").err # ""
           /\ (result'.force \/ ViolatedGuards(result'.name) = <<>>)) =>
            IF result'.force
            THEN /\ result'.err = ""
                 /\ "pre-delete hook failed" \in result'.warn
                 /\ result'.name \notin live'
                 /\ result'.removed = {result'.name}
            ELSE /\ result'.err = "pre-delete hook failed"
                 /\ result'.name \in live'
                 /\ wtBranch[result'.name] \in branches'
                 /\ "post_delete" \notin HookEvents(result'.hooks)
                 /\ "pre_delete" \in HookEvents(result'.hooks)
                 /\ UNCHANGED <<gitVars, metaVars>> ]_vars

\* a delete was stopped by its last pre-delete hook
PreDeleteFailureAbortsWitness ==
    /\ result.cmd = "delete"
    /\ result.err = "pre-delete hook failed"
    /\ Len(result.hooks) = MaxHooks
    /\ result.name \in live

\* the position of the first failing entry of the list under Run, 0 if none
FirstFailure(h) ==
    LET failing == { k \in 1..Len(h.entries) : h.oc[h.entries[k]] # "ok" }
    IN IF failing = {} THEN 0
       ELSE CHOOSE k \in failing : \A j \in failing : k <= j

\* C10: Run hands the entries to runHook one at a time in configured order and
\* stops at the first failing entry ek: e1..ek are started, in that order,
\* nothing after ek, and the error of ek is returned.
RunStopsAtFirstFailure ==
    probe.kind = "hooks" =>
        LET k == FirstFailure(probe)
        IN /\ Len(probe.log) <= Len(probe.entries)
           /\ probe.log = SubSeq(probe.entries, 1, Len(probe.log))
           /\ k # 0 => Len(probe.log) <= k
           /\ probe.ran = SelectSeq(probe.log, LAMBDA e : probe.oc[e] # "missing")
           /\ probe.done =>
                 IF k = 0
                 THEN probe.log = probe.entries /\ probe.err = ""
                 ELSE /\ probe.log = SubSeq(probe.entries, 1, k)
                      /\ probe.err = (IF probe.oc[probe.entries[k]] = "missing"
                                       THEN "hook script not found" ELSE "exit status 1")

\* a list of three whose second entry failed: Run is over with two started
RunStopsAtFirstFailureWitness ==
    /\ probe.kind = "hooks"
    /\ probe.done
    /\ Len(probe.entries) = 3
    /\ Len(probe.log) = 2
    /\ probe.err = "exit status 1"

\* C11: when a pre_create hook fails, wt create returns the pre-create error
\* and changes nothing: no worktree, no branch, no creation metadata, no index,
\* and no post_create hook is run.
PreCreateFailureCreatesNothing ==
    [][ (/\ result.cmd = "none"
         /\ result'.cmd = "create"
         /\ RunEvent("pre_create").err # "")
        => /\ result'.err = "pre-create hook failed"
           /\ UNCHANGED <<gitVars, metaVars>>
           /\ result'.index = 0
           /\ "post_create" \notin HookEvents(result'.hooks) ]_vars

PreCreateFailureCreatesNothingWitness ==
    /\ result.cmd = "create"
    /\ result.err = "pre-create hook failed"
    /\ RunEvent("pre_create").err # ""
    /\ result.name \notin live
    /\ result.name \notin branches
    /\ index[result.name] = 0
    /\ HookEvents(result.hooks) = {"pre_create"}

\* whether the hook run recorded holds an entry of the event for worktree c
HookRanFor(event, c) ==
    \E i \in DOMAIN result.hooks : result.hooks[i].ev = event /\ result.hooks[i].name = c

\* candidate c of the cleanup that just ran went through its own delete
\* sequence: its pre_delete hooks were run; unless they failed without
\* --force or git refused the removal, the worktree is gone, the branch
\* deletion was tried unless --keep-branch, and its post_delete hooks were run
WentThroughDeleteSequence(c) ==
    /\ cfg.pre_delete # <<>> => HookRanFor("pre_delete", c)
    /\ \/ c \notin live
       \/ c \in locked
       \/ RunEvent("pre_delete").err # "" /\ ~result.force
    /\ c \notin live =>
          /\ c \in result.removed
          /\ cfg.post_delete # <<>> => HookRanFor("post_delete", c)
          /\ result.keep => c \in branches
          /\ ~result.keep => \/ c \notin branches
                             \/ ~result.force /\ own[c] # inMain[c]

\* C12: in a cleanup that is not a dry run and was not aborted at the prompt,
\* every candidate goes through its own delete sequence, whatever failed on
\* the candidates before it (pre_delete hook, worktree removal, branch
\* deletion, post_delete hook).
CleanupIsolatesFailures ==
    (result.cmd = "cleanup" /\ ~result.dry /\ result.err = "")
        => \A c \in Range(result.cands) : WentThroughDeleteSequence(c)

\* the first candidate could not be removed and the second one is gone with
\* its branch
CleanupIsolatesFailuresWitness ==
    /\ result.cmd = "cleanup" /\ ~result.dry /\ result.err = ""
    /\ result.cands = <<1, 2>>
    /\ 1 \in result.failed /\ 1 \in live
    /\ 2 \in result.removed /\ 2 \notin live /\ 2 \notin branches
    /\ HookRanFor("post_delete", 2)

\* worktree n has commits made since its creation, all merged into the local
\* default branch, and no uncommitted changes
MergedAndClean(n) ==
    /\ n \in live
    /\ wtBranch[n] # 0
    /\ ~LocalStatus(Repo, n).IsNew
    /\ LocalStatus(Repo, n).IsMerged
    /\ ~LocalStatus(Repo, n).HasUncommittedChanges

\* a step in which a cleanup that is not a dry run ran and was not aborted at
\* the prompt
ConfirmedCleanupStep ==
    /\ result'.cmd = "cleanup"
    /\ ~result'.dry
    /\ result'.err = ""

ForcedCleanupStep ==
    /\ result'.cmd = "cleanup"
    /\ ~result'.dry
    /\ result'.force

\* what a cleanup without --force, its prompt answered yes, does on the
\* repository the step started from
ConfirmedCleanup == runCleanup(Repo, result'.cwd, FALSE, FALSE, result'.keep, TRUE, TRUE)

ResolveStep ==
    /\ now' = now
    /\ result'.cmd \in {"list", "cleanup", "delete"}
    /\ result'.cmd = "delete" => ~result'.force /\ result'.name \in live

\* neither the global configuration nor the entry of the repository names a remote
NoRemoteConfigured ==
    /\ userCfg.remote = ""
    /\ userCfg.repo.present => userCfg.repo.remote = ""

\* C15: with no remote configured, whatever the fetch interval, resolving the
\* comparison ref issues no fetch, does not look at the last fetch time and
\* does not record one, leaves the tracking ref alone, and yields the local
\* default branch.
NoRemoteNoFetch ==
    [][ (ResolveStep /\ NoRemoteConfigured)
          => /\ ~result'.fetched
             /\ ~result'.consulted
             /\ UNCHANGED netVars
             /\ result'.ref = "local" ]_vars

\* wt list ran with no remote and the interval "0", in a repository where the
\* tracking ref exists
NoRemoteNoFetchWitness ==
    /\ result.cmd = "list"
    /\ NoRemoteConfigured
    /\ GetFetchIntervalForRepo(userCfg) = 0
    /\ trackExists
    /\ result.ref = "local"
    /\ ~result.fetched

\* the fetch interval as configured: the repository's own if it has one,
\* else the global one
ConfiguredInterval ==
    IF userCfg.repo.present /\ userCfg.repo.fetchInterval # "unset"
    THEN userCfg.repo.fetchInterval
    ELSE userCfg.fetchInterval

\* C16: with a remote configured, a resolution under the interval "never"
\* issues no fetch and leaves the tracking ref and the last fetch time alone,
\* whether or not a fetch was ever recorded; under the interval "0" it issues
\* a fetch on every invocation, however recent the last one.
NeverAndZeroIntervals ==
    [][ (ResolveStep /\ ~NoRemoteConfigured)
          => /\ ConfiguredInterval = "never" => ~result'.fetched /\ UNCHANGED netVars
             /\ ConfiguredInterval = "0" => result'.fetched /\ fetchLog'.at = now ]_vars

\* under "never" nothing was fetched though the last fetch is a whole
\* interval back
NeverAndZeroIntervalsWitness ==
    /\ result.cmd \in {"list", "cleanup", "delete"}
    /\ ~NoRemoteConfigured
    /\ ConfiguredInterval = "never"
    /\ ~result.fetched
    /\ lastFetch # 0
    /\ now - lastFetch >= FiveMinutes

\* under "0" a fetch was issued at the very time of the last recorded one
ZeroIntervalFetchesAgain ==
    /\ result.cmd \in {"list", "cleanup", "delete"}
    /\ ConfiguredInterval = "0"
    /\ result.fetched
    /\ fetchLog = [at |-> now, ok |-> FALSE]
    /\ lastFetch = now

\* a step in which a resolution issued a fetch under a positive interval
FetchStepUnderInterval ==
    /\ ResolveStep
    /\ result'.fetched
    /\ GetFetchIntervalForRepo(userCfg) > 0

DeleteGuardError ==
    /\ result'.err = "worktree has uncommitted or unmerged changes"
    /\ result'.issues = runDeleteIssues(TRUE, 0)

\* C18: no resolution makes the command fail because of the remote: with or
\* without a fetch, failed or not, wt list and wt cleanup return no error and
\* wt delete only the error of its own safety checks; the comparison ref is
\* the tracking ref exactly when a remote is configured and the ref exists
\* once the fetch, if any, is over, and the local default branch otherwise.
ResolutionNeverFails ==
    [][ ResolveStep
          => /\ result'.cmd \in {"list", "cleanup"} => result'.err = ""
             /\ result'.cmd = "delete" => DeleteGuardError
             /\ result'.ref = "track" <=> (~NoRemoteConfigured /\ trackExists')
             /\ result'.ref = "local" <=> (NoRemoteConfigured \/ ~trackExists') ]_vars

\* a fetch failed, the tracking ref does not exist, and wt list went on with
\* the local default branch
ResolutionNeverFailsWitness ==
    /\ result.cmd = "list"
    /\ ~NoRemoteConfigured
    /\ result.fetched
    /\ fetchLog = [at |-> now, ok |-> FALSE]
    /\ ~trackExists
    /\ result.err = ""
    /\ result.ref = "local"

\* a step in which wt list ran right after `wt config remote ""` was given
\* for the repository
ListAfterEmptyRepoRemote ==
    /\ result.cmd = "config"
    /\ ~result.global
    /\ result.key = "remote"
    /\ result.value = ""
    /\ result.err = ""
    /\ result'.cmd = "list"

\* C19: after `wt config remote ""` for the repository, comparison is local
\* only, whatever the global remote: wt list compares with the local default
\* branch and issues no fetch.
EmptyRepoRemoteIsLocal ==
    [][ ListAfterEmptyRepoRemote => result'.ref = "local" /\ ~result'.fetched ]_vars

\* a step in which wt create got as far as adding the worktree: the
\* pre_create hooks succeeded and neither the worktree nor the branch existed
CreateAddsWorktreeStep ==
    /\ result.cmd = "none"
    /\ result'.cmd = "create"
    /\ RunEvent("pre_create").err = ""
    /\ result'.name \notin live
    /\ result'.name \notin branches

\* every value 1..index.max is held by a live worktree
IndexesExhausted ==
    /\ result'.maxIndex > 0
    /\ \A i \in 1..result'.maxIndex : \E m \in live : index[m] = i

\* C20: when the allocation of the index fails (index.max exhausted) or the
\* index cannot be stored, wt create still succeeds: the worktree and its
\* branch exist, a warning is given, no index is recorded for the worktree,
\* none is handed to the hooks, and the post_create hooks are run.
IndexFailureNotFatal ==
    [][ (CreateAddsWorktreeStep /\ (IndexesExhausted \/ ~result'.storeOk))
          => /\ result'.err = ""
             /\ result'.name \in live'
             /\ result'.name \in branches'
             /\ result'.warn # {}
             /\ index'[result'.name] = 0
             /\ result'.index = 0
             /\ createdAt'[result'.name] # 0
             /\ \E i \in DOMAIN result'.hooks :
                   /\ result'.hooks[i].ev = "post_create"
                   /\ result'.hooks[i].idx = 0 ]_vars

\* a worktree was created without an index because the index could not be
\* stored, though a value was free
IndexFailureNotFatalWitness ==
    /\ result.cmd = "create"
    /\ result.err = ""
    /\ ~result.storeOk
    /\ result.maxIndex = 0
    /\ "could not store index" \in result.warn
    /\ result.name \in live
    /\ index[result.name] = 0
    /\ "post_create" \in HookEvents(result.hooks)

\* a worktree was created without an index because index.max was exhausted
IndexExhaustedCreateSucceeds ==
    /\ result.cmd = "create"
    /\ result.err = ""
    /\ result.storeOk
    /\ result.bound > 0
    /\ result.name \in live
    /\ index[result.name] = 0
    /\ "post_create" \in HookEvents(result.hooks)

(***************************************************************************)
(* Status rendering: FormatCompactStatus of wt list and wt cleanup.  The   *)
(* rendered string is kept as the sequence of parts joined by spaces; the  *)
(* bracketed part keeps its tags in order, each with its label, whether it *)
(* is printed bold, and the pull requests a merged label names.            *)
(***************************************************************************)
MaxAhead == 2
MaxBehind == 1

PRLists == {<<>>, <<"#1">>, <<"#1", "#2">>}

Tag(label, bold) == [label |-> label, bold |-> bold, prs |-> <<>>]

\* "merged", or "merged in #1, #2" when merge commits name pull requests
FormatMergedStatus(prs) == [label |-> "merged", bold |-> FALSE, prs |-> prs]

\* the state label with in_progress tested before new
stateTagsInProgressFirst(status) ==
    IF status.CommitsAhead > 0 /\ ~status.IsMerged
    THEN <<Tag("in_progress", TRUE)>>
    ELSE IF status.IsNew
    THEN <<Tag("new", FALSE)>>
    ELSE IF status.IsMerged /\ status.CommitsAhead = 0
    THEN <<FormatMergedStatus(status.MergedPRs)>>
    ELSE <<>>

\* the state label with merged shown whatever the ahead-count
stateTagsMergedWhenAhead(status) ==
    IF status.IsNew
    THEN <<Tag("new", FALSE)>>
    ELSE IF status.CommitsAhead > 0 /\ ~status.IsMerged
    THEN <<Tag("in_progress", TRUE)>>
    ELSE IF status.IsMerged
    THEN <<FormatMergedStatus(status.MergedPRs)>>
    ELSE <<>>

\* the mutually exclusive state label: new, else in_progress, else merged
stateTags(status) ==
    IF status.IsNew
    THEN <<Tag("new", FALSE)>>
    ELSE IF status.CommitsAhead > 0 /\ ~status.IsMerged
    THEN <<Tag("in_progress", TRUE)>>
    ELSE IF status.IsMerged /\ status.CommitsAhead = 0
    THEN <<FormatMergedStatus(status.MergedPRs)>>
    ELSE <<>>

\* dirty replacing the state label instead of joining it
withDirtyReplacing(statusTags, status) ==
    IF status.HasUncommittedChanges
    THEN <<Tag("dirty", TRUE)>>
    ELSE statusTags

\* dirty is appended to whatever state label there is
withDirty(statusTags, status) ==
    IF status.HasUncommittedChanges
    THEN Append(statusTags, Tag("dirty", TRUE))
    ELSE statusTags

\* the ahead and behind counts, each shown only when positive
countParts(status) ==
    (IF status.CommitsAhead > 0
     THEN <<[part |-> "ahead", n |-> status.CommitsAhead, tags |-> <<>>]>>
     ELSE <<>>)
    \o
    (IF status.CommitsBehind > 0
     THEN <<[part |-> "behind", n |-> status.CommitsBehind, tags |-> <<>>]>>
     ELSE <<>>)

FormatCompactStatus(status) ==
    LET statusTags == withDirty(stateTags(status), status)
    IN  IF Len(statusTags) > 0
        THEN Append(countParts(status), [part |-> "tags", n |-> 0, tags |-> statusTags])
        ELSE countParts(status)

\* the labels inside the brackets of a rendered status, in order
Labels(rendered) ==
    IF rendered # <<>> /\ rendered[Len(rendered)].part = "tags"
    THEN [i \in 1..Len(rendered[Len(rendered)].tags) |->
            rendered[Len(rendered)].tags[i].label]
    ELSE <<>>

WorktreeStatuses ==
    [HasUncommittedChanges : BOOLEAN, CommitsAhead : 0..MaxAhead,
     CommitsBehind : 0..MaxBehind, IsMerged : BOOLEAN, IsNew : BOOLEAN,
     MergedPRs : PRLists]

\* one status record, as GetWorktreeStatus can fill it or as a test builds it
InitFormat ==
    /\ EmptyRepo
    /\ trackExists = FALSE
    /\ cfg = WtConfig(0)
    /\ scripts = [e \in Events |-> AllOk(0)]
    /\ userCfg = DefaultUserConfig
    /\ result = NoResult
    /\ \E st \in WorktreeStatuses :
          probe = [kind |-> "format", status |-> st, rendered |-> <<>>, done |-> FALSE]

\* one call of FormatCompactStatus
Format ==
    /\ ~probe.done
    /\ probe' = [probe EXCEPT !.rendered = FormatCompactStatus(probe.status),
                              !.done = TRUE]
    /\ UNCHANGED <<live, locked, wtBranch, branches, own, inMain, inTrack, inUp, trackExists, dirty,
                   index, initialCommit, createdAt, lastFetch, fetchLog, headStale, now, cfg, scripts, userCfg,
                   result>>

NextFormat == Format

SpecFormat == InitFormat /\ [][NextFormat]_vars

Formatted == probe.kind = "format" /\ probe.done

\* C21: a worktree reported as new is rendered with the new label and with
\* neither in_progress nor a merged label, whatever its ahead-count and
\* whatever its merged flag.
NewTakesPrecedence ==
    (Formatted /\ probe.status.IsNew) =>
        /\ "new" \in Range(Labels(probe.rendered))
        /\ "in_progress" \notin Range(Labels(probe.rendered))
        /\ "merged" \notin Range(Labels(probe.rendered))

NewTakesPrecedenceWitness ==
    /\ Formatted
    /\ probe.status.IsNew
    /\ probe.status.CommitsAhead > 0
    /\ ~probe.status.IsMerged
    /\ Labels(probe.rendered) = <<"new">>

StateLabels == {"new", "in_progress", "merged"}

\* C22: a worktree that is not new and whose branch is merged is rendered
\* with the merged label when it has no commits ahead, and with no state
\* label at all when it has commits ahead.
MergedOnlyWhenNotAhead ==
    (Formatted /\ ~probe.status.IsNew /\ probe.status.IsMerged) =>
        /\ probe.status.CommitsAhead = 0 =>
              "merged" \in Range(Labels(probe.rendered))
        /\ probe.status.CommitsAhead > 0 =>
              Range(Labels(probe.rendered)) \cap StateLabels = {}

MergedOnlyWhenNotAheadWitness ==
    /\ Formatted
    /\ ~probe.status.IsNew
    /\ probe.status.IsMerged
    /\ probe.status.CommitsAhead > 0
    /\ ~probe.status.HasUncommittedChanges
    /\ probe.rendered = countParts(probe.status)
    /\ Len(probe.rendered) > 0

\* C22 as stated, without the precedence of new: every record with no
\* commits ahead and the merged flag set is rendered with a merged label.
MergedLabelWheneverMergedNotAhead ==
    (Formatted /\ probe.status.IsMerged /\ probe.status.CommitsAhead = 0) =>
        "merged" \in Range(Labels(probe.rendered))

\* the record the statement fails on is the one GetWorktreeStatus computes
\* for a worktree just created from the default branch
FreshWorktreeIsNewAndMerged ==
    \E n \in live :
        LET st == GetWorktreeStatus(Repo, n, wtBranch[n], "local",
                                    GetMergedBranches(Repo, "local"))
        IN  st.IsNew /\ st.IsMerged /\ st.CommitsAhead = 0

\* C23: the dirty tag is rendered exactly when the worktree has uncommitted
\* changes, and it comes after the state label the same worktree would get
\* without those changes, which is still rendered.
DirtyIsAdditive ==
    Formatted =>
        LET clean == [probe.status EXCEPT !.HasUncommittedChanges = FALSE]
            tagsOf(rendered) ==
                IF rendered # <<>> /\ rendered[Len(rendered)].part = "tags"
                THEN rendered[Len(rendered)].tags
                ELSE <<>>
        IN  /\ ("dirty" \in Range(Labels(probe.rendered)))
                  <=> probe.status.HasUncommittedChanges
            /\ "dirty" \notin Range(Labels(FormatCompactStatus(clean)))
            /\ probe.status.HasUncommittedChanges =>
                  /\ tagsOf(probe.rendered) =
                        Append(tagsOf(FormatCompactStatus(clean)), Tag("dirty", TRUE))
                  /\ \A l \in StateLabels :
                        (l \in Range(Labels(FormatCompactStatus(clean))))
                           <=> (l \in Range(Labels(probe.rendered)))

DirtyIsAdditiveWitness ==
    /\ Formatted
    /\ probe.status.HasUncommittedChanges
    /\ Labels(probe.rendered) = <<"in_progress", "dirty">>

\* a cleanup that got to its deletion loop has returned
CleanupRan ==
    /\ result.cmd = "cleanup"
    /\ ~result.dry
    /\ result.err = ""
    /\ Len(result.cands) > 0

\* C24: cleanup sends the caller back to the repository root exactly when
\* the working directory is inside a worktree this run removed.
ReturnSignalledExactlyWhenCwdRemoved ==
    CleanupRan => (result.cd <=> result.cwd \in result.removed)

\* what the code guarantees: the signal is given whenever the working
\* directory was inside a removed worktree, and only when the working
\* directory was inside a candidate and some candidate was removed
ReturnSignalledWhenCwdRemoved ==
    CleanupRan =>
        /\ result.cwd \in result.removed => result.cd
        /\ result.cd => /\ result.cwd \in Range(result.cands)
                        /\ result.removed # {}

ReturnSignalledWhenCwdRemovedWitness ==
    /\ CleanupRan
    /\ result.cd
    /\ result.cwd \in result.removed

\* the signal is given although the worktree the caller stands in is kept
ReturnSignalledFromKeptWorktree ==
    /\ CleanupRan
    /\ result.cd
    /\ result.cwd \in live
    /\ result.cwd \notin result.removed

(***************************************************************************)
(* fetchWithSpinner as two threads: the caller, blocked in the fetch, and  *)
(* the spinner goroutine.  The probe holds the position of each, the done  *)
(* channel, the wait group counter and what has been written to stderr.    *)
(***************************************************************************)
MaxFrames == 4

NonProbeVars ==
    <<live, locked, wtBranch, branches, own, inMain, inTrack, inUp, trackExists, dirty,
      index, initialCommit, createdAt, lastFetch, fetchLog, headStale, now, cfg, scripts, userCfg,
      result>>

\* wg.Wait() without the wait
waitReturnsAtOnce(wg) == TRUE

\* wg.Wait() returns when the counter is back to zero
waitReturns(wg) == wg = 0

\* before the call: nothing written, no goroutine
InitSpinner ==
    /\ EmptyRepo
    /\ trackExists = FALSE
    /\ cfg = WtConfig(0)
    /\ scripts = [e \in Events |-> AllOk(0)]
    /\ userCfg = DefaultUserConfig
    /\ result = NoResult
    /\ probe = [kind |-> "spinner", main |-> "start", spin |-> "idle", closed |-> FALSE,
                wg |-> 0, err |-> FALSE, recorded |-> FALSE, out |-> <<>>, i |-> 0]

\* done := make(chan struct{}); wg.Add(1); go func() {...}()
SpinStart ==
    /\ probe.kind = "spinner" /\ probe.main = "start"
    /\ probe' = [probe EXCEPT !.main = "fetch", !.spin = "select", !.wg = 1]
    /\ UNCHANGED NonProbeVars

\* err := git.FetchRemoteQuiet(repoRoot, remote) returns, with or without error
FetchReturns(ok) ==
    /\ probe.kind = "spinner" /\ probe.main = "fetch"
    /\ probe' = [probe EXCEPT !.main = "close", !.err = ~ok]
    /\ UNCHANGED NonProbeVars

\* close(done)
CloseDone ==
    /\ probe.kind = "spinner" /\ probe.main = "close"
    /\ probe' = [probe EXCEPT !.main = "wait", !.closed = TRUE]
    /\ UNCHANGED NonProbeVars

\* wg.Wait(); if err != nil { return err }
WaitSpinner ==
    /\ probe.kind = "spinner" /\ probe.main = "wait"
    /\ waitReturns(probe.wg)
    /\ probe' = [probe EXCEPT !.main = IF probe.err THEN "returned" ELSE "record"]
    /\ UNCHANGED NonProbeVars

\* git.SetLastFetchTime and git.UpdateRemoteHead
RecordFetch ==
    /\ probe.kind = "spinner" /\ probe.main = "record"
    /\ probe' = [probe EXCEPT !.main = "print", !.recorded = TRUE]
    /\ UNCHANGED NonProbeVars

\* "Fetched from <remote>" is printed and the function returns nil
PrintSuccess ==
    /\ probe.kind = "spinner" /\ probe.main = "print"
    /\ probe' = [probe EXCEPT !.main = "returned", !.out = Append(@, "fetched")]
    /\ UNCHANGED NonProbeVars

\* the select of the goroutine: the done case when the channel is closed,
\* the default case otherwise (at most MaxFrames frames are drawn)
SpinSelect ==
    /\ probe.kind = "spinner" /\ probe.spin = "select"
    /\ probe.closed \/ probe.i < MaxFrames
    /\ probe' = [probe EXCEPT !.spin = IF probe.closed THEN "clear" ELSE "frame"]
    /\ UNCHANGED NonProbeVars

\* default: the next frame is written over the line
SpinFrame ==
    /\ probe.kind = "spinner" /\ probe.spin = "frame"
    /\ probe' = [probe EXCEPT !.spin = "sleep", !.out = Append(@, "frame"), !.i = @ + 1]
    /\ UNCHANGED NonProbeVars

\* time.Sleep(80 * time.Millisecond) is over
SpinSleep ==
    /\ probe.kind = "spinner" /\ probe.spin = "sleep"
    /\ probe' = [probe EXCEPT !.spin = "select"]
    /\ UNCHANGED NonProbeVars

\* case <-done: the line is erased
SpinClear ==
    /\ probe.kind = "spinner" /\ probe.spin = "clear"
    /\ probe' = [probe EXCEPT !.spin = "return", !.out = Append(@, "erase")]
    /\ UNCHANGED NonProbeVars

\* return, with the deferred wg.Done()
SpinExit ==
    /\ probe.kind = "spinner" /\ probe.spin = "return"
    /\ probe' = [probe EXCEPT !.spin = "exited", !.wg = @ - 1]
    /\ UNCHANGED NonProbeVars

SpinnerStep == SpinSelect \/ SpinFrame \/ SpinSleep \/ SpinClear \/ SpinExit

CallerStep == SpinStart \/ CloseDone \/ WaitSpinner \/ RecordFetch \/ PrintSuccess

NextSpinner ==
    \/ SpinStart
    \/ \E ok \in BOOLEAN : FetchReturns(ok)
    \/ CloseDone
    \/ WaitSpinner
    \/ RecordFetch
    \/ PrintSuccess
    \/ SpinSelect
    \/ SpinFrame
    \/ SpinSleep
    \/ SpinClear
    \/ SpinExit

SpecSpinner == InitSpinner /\ [][NextSpinner]_vars

\* the Go scheduler runs every runnable goroutine and a sleep ends; nothing
\* is assumed about the fetch, which may block for ever
SpecSpinnerFair ==
    SpecSpinner /\ WF_vars(CallerStep) /\ WF_vars(SpinnerStep)

\* the fetch has returned and the function has not
FetchHasReturned ==
    probe.kind = "spinner" /\ probe.main \in {"close", "wait", "record", "print"}

\* the function is past wg.Wait(): it is about to report, or has reported,
\* the result of the fetch
ReportingResult ==
    probe.kind = "spinner" /\ probe.main \in {"record", "print", "returned"}

\* the last thing the goroutine wrote is the erasure of its line
LineErased ==
    \E k \in 1..Len(probe.out) :
        /\ probe.out[k] = "erase"
        /\ \A j \in (k + 1)..Len(probe.out) : probe.out[j] = "fetched"

SpinnerStopped ==
    ReportingResult => (probe.spin = "exited" /\ probe.wg = 0 /\ LineErased)

NoFrameWhileReporting ==
    ReportingResult => (probe'.i = probe.i /\ probe'.spin = probe.spin)

\* C25: once the fetch has returned, the goroutine has erased its line and
\* terminated before the function returns the error or prints the success
\* message, no frame is written from then on, and the function returns.
SpinnerStoppedBeforeReport ==
    /\ []SpinnerStopped
    /\ [][NoFrameWhileReporting]_vars
    /\ (FetchHasReturned ~> (probe.main = "returned"))

SpinnerStoppedBeforeReportWitness ==
    /\ probe.kind = "spinner"
    /\ probe.main = "returned"
    /\ ~probe.err
    /\ probe.out = <<"frame", "frame", "erase", "fetched">>

\* a frame can still be written after the fetch has returned and the channel
\* is closed, when the goroutine had already taken its default case
FrameAfterClose ==
    /\ probe.kind = "spinner"
    /\ probe.closed
    /\ probe.spin = "frame"

(***************************************************************************)
(* Two wt create processes on one repository.  Process p creates the       *)
(* worktree named p on a new branch; each statement of runCreate that      *)
(* reads or writes the shared git metadata is a step of its own, and the   *)
(* index a process has allocated and not yet stored is local to it.        *)
(***************************************************************************)
\* no hooks are configured; index.max is drawn
InitRace ==
    /\ EmptyRepo
    /\ trackExists = FALSE
    /\ cfg = WtConfig(0)
    /\ scripts = [e \in Events |-> AllOk(0)]
    /\ userCfg = DefaultUserConfig
    /\ result = NoResult
    /\ \E maxIndex \in 0..MaxNames :
          probe = [kind |-> "race", pc |-> [p \in Names |-> "start"],
                   idx |-> [p \in Names |-> 0], maxIndex |-> maxIndex]

\* the branch check, git worktree add -b, and the creation metadata
RaceAdd(p) ==
    /\ probe.kind = "race" /\ probe.pc[p] = "start"
    /\ ~BranchExists(Repo, p)
    /\ LET add == CreateWorktree(Repo, p, p)
           r1  == SetWorktreeCreatedAt(add.repo, p, now)
           r2  == SetWorktreeInitialCommit(r1, p, GetCurrentCommit(r1, p))
       IN /\ add.ok
          /\ Install(r2)
    /\ probe' = [probe EXCEPT !.pc[p] = "added"]
    /\ UNCHANGED <<now, cfg, scripts, userCfg, result>>

\* index, err := git.AllocateIndex(repoRoot, cfg.Index.Max)
RaceAllocate(p) ==
    /\ probe.kind = "race" /\ probe.pc[p] = "added"
    /\ LET al == AllocateIndex(Repo, probe.maxIndex)
       IN probe' = [probe EXCEPT !.pc[p] = IF al.err # "" THEN "done" ELSE "allocated",
                                 !.idx[p] = al.idx]
    /\ UNCHANGED NonProbeVars

\* git.SetWorktreeIndex(repoRoot, name, index)
RacePersist(p) ==
    /\ probe.kind = "race" /\ probe.pc[p] = "allocated"
    /\ Install(SetWorktreeIndex(Repo, p, probe.idx[p]))
    /\ probe' = [probe EXCEPT !.pc[p] = "stored"]
    /\ UNCHANGED <<now, cfg, scripts, userCfg, result>>

\* the post_create hooks (none) and the success message
RaceFinish(p) ==
    /\ probe.kind = "race" /\ probe.pc[p] = "stored"
    /\ probe' = [probe EXCEPT !.pc[p] = "done"]
    /\ UNCHANGED NonProbeVars

\* wt delete --force of the worktree a finished process created
RaceDelete(p) ==
    /\ probe.kind = "race" /\ probe.pc[p] = "done"
    /\ p \in live
    /\ Install(runDelete(Repo, p, TRUE, FALSE, TRUE).repo)
    /\ probe' = [probe EXCEPT !.pc[p] = "start", !.idx[p] = 0]
    /\ UNCHANGED <<now, cfg, scripts, userCfg, result>>

NextRace ==
    \/ \E p \in Names : RaceAdd(p)
    \/ \E p \in Names : RaceAllocate(p)
    \/ \E p \in Names : RacePersist(p)
    \/ \E p \in Names : RaceFinish(p)
    \/ \E p \in Names : RaceDelete(p)

SpecRace == InitRace /\ [][NextRace]_vars

\* C26: two wt create processes whose allocate and persist steps interleave
\* never leave their two worktrees with the same index.
RacingCreatesGetDistinctIndexes ==
    probe.kind = "race" =>
        \A p \in Names, q \in Names :
            (/\ p # q
             /\ probe.pc[p] \in {"stored", "done"}
             /\ probe.pc[q] \in {"stored", "done"}
             /\ p \in live /\ q \in live
             /\ index[p] # 0 /\ index[q] # 0)
            => index[p] # index[q]

\* both processes have finished and their worktrees hold index 1
BothHoldIndexOne ==
    /\ probe.kind = "race"
    /\ \A p \in Names : probe.pc[p] = "done" /\ p \in live /\ index[p] = 1

\* a step in which wt delete without --force resolved its comparison ref
DeleteResolveStep ==
    /\ now' = now
    /\ result'.cmd = "delete"
    /\ ~result'.force
    /\ result'.name \in live

\* what resolveComparisonRef, as wt list and wt cleanup call it, does on the
\* state the step started from, with the fetch outcome of the step
ListResolution ==
    resolveComparisonRef(Repo, IF result'.fetched THEN fetchLog'.ok ELSE TRUE)

\* C27: the resolution in wt delete gives the comparison ref, takes the
\* fetch decision and leaves the last-fetch time and the recorded HEAD of
\* the remote that resolveComparisonRef gives, takes and leaves.
DeleteReusesResolver ==
    [][ DeleteResolveStep
          => /\ result'.ref = ListResolution.ref
             /\ result'.fetched = ListResolution.fetched
             /\ lastFetch' = ListResolution.repo.lastFetch
             /\ headStale' = ListResolution.repo.headStale ]_vars

\* what does hold: the ref, the fetch decision, the refs fetched and the
\* last-fetch time are those of resolveComparisonRef
DeleteResolvesRefLikeList ==
    [][ DeleteResolveStep
          => /\ result'.ref = ListResolution.ref
             /\ result'.fetched = ListResolution.fetched
             /\ result'.consulted = ListResolution.consulted
             /\ lastFetch' = ListResolution.repo.lastFetch
             /\ inTrack' = ListResolution.repo.inTrack
             /\ trackExists' = ListResolution.repo.trackExists ]_vars

\* wt delete has fetched successfully and the recorded HEAD of the remote is
\* still the stale one
DeleteLeavesHeadStale ==
    /\ result.cmd = "delete"
    /\ result.fetched
    /\ fetchLog = [at |-> now, ok |-> TRUE]
    /\ lastFetch = now
    /\ headStale

\* a step in which wt cleanup ran its deletion loop
CleanupBatchStep ==
    /\ now' = now
    /\ result'.cmd = "cleanup"
    /\ ~result'.dry
    /\ result'.err = ""
    /\ result' # result

\* the candidates on the state the step started from, once the comparison
\* ref is resolved: the classification before anything is deleted
CandidateSnapshot == FindCandidates(ListResolution.repo, ListResolution.ref)

\* the worktrees the hooks of a batch were run for, in the order of their
\* first hook
RECURSIVE Visited(_)
Visited(hooks) ==
    IF hooks = <<>> THEN <<>>
    ELSE <<Head(hooks).name>>
         \o SelectSeq(Visited(Tail(hooks)), LAMBDA n : n # Head(hooks).name)

\* C28: cleanup classifies every worktree on the state it starts from, with
\* one merged-branch set, and then processes exactly those candidates in
\* listing order: each of them gets its delete sequence, whatever the
\* deletions before it changed, and no other worktree is touched.
CleanupProcessesSnapshot ==
    [][ CleanupBatchStep
          => LET snapshot == CandidateSnapshot
             IN /\ result'.cands = snapshot
                /\ \A i, j \in DOMAIN snapshot : i < j => snapshot[i] < snapshot[j]
                /\ result'.removed \cup result'.failed = Range(snapshot)
                /\ cfg.pre_delete # <<>> => Visited(result'.hooks) = snapshot
                /\ \A n \in live \ Range(snapshot) :
                      /\ n \in live'
                      /\ wtBranch[n] \in branches'
                      /\ index'[n] = index[n] ]_vars

\* both worktrees were candidates, hooks are configured, the first was
\* removed with its branch and the second was processed after it
CleanupProcessesSnapshotWitness ==
    /\ result.cmd = "cleanup" /\ ~result.dry /\ result.err = ""
    /\ result.cands = <<1, 2>>
    /\ result.removed = {1, 2}
    /\ 1 \notin branches
    /\ Visited(result.hooks) = <<1, 2>>

\* one worktree was not a candidate and is still there after the batch
NonCandidateUntouched ==
    /\ result.cmd = "cleanup" /\ ~result.dry /\ result.err = ""
    /\ result.cands = <<2>>
    /\ result.removed = {2}
    /\ 1 \in live

\* a step in which wt create, wt delete or wt cleanup ran
LifecycleStep ==
    /\ now' = now
    /\ result' # result
    /\ result'.cmd \in {"create", "delete", "cleanup"}

PostCreateGetsIndex ==
    /\ result.cmd = "create"
    /\ \E i \in DOMAIN result.hooks :
          /\ result.hooks[i].ev = "post_create"
          /\ result.hooks[i].idx = index[result.name]
          /\ index[result.name] = 2

\* a step in which wt create ran and its pre_create hooks, if any, all passed
CreatePastPreHooksStep ==
    /\ result.cmd = "none"
    /\ result'.cmd = "create"
    /\ RunEvent("pre_create").err = ""

\* the branch precondition of that create does not hold on the repository
\* the step started from
BranchPreconditionFails ==
    \/ result'.branch = 0 /\ result'.name \in branches
    \/ result'.branch # 0 /\ result'.branch \notin branches

\* C30 as stated: a create that fails its branch precondition has executed no
\* hook and created no worktree, branch or metadata.
BranchFailureRunsNoHook ==
    [][ (CreatePastPreHooksStep /\ BranchPreconditionFails)
          => /\ result'.err \in {"branch already exists", "branch does not exist"}
             /\ result'.hooks = <<>>
             /\ UNCHANGED <<gitVars, metaVars>> ]_vars

\* C30: a create that fails its branch precondition returns the error of the
\* check and creates no worktree, no branch and no metadata; its post_create
\* hooks are not run, but its pre_create hooks, which come before the branch
\* checks, have all been run.
BranchFailureCreatesNothing ==
    [][ (CreatePastPreHooksStep /\ BranchPreconditionFails)
          => /\ result'.err = (IF result'.branch = 0 THEN "branch already exists"
                               ELSE "branch does not exist")
             /\ UNCHANGED <<gitVars, metaVars>>
             /\ result'.index = 0
             /\ result'.hooks = HookLog("pre_create", result'.name, 0,
                                        RunEvent("pre_create").log)
             /\ Len(result'.hooks) = Len(cfg.pre_create) ]_vars

\* the branch existed already, nothing was created, and the pre_create hooks
\* had been run
BranchFailureCreatesNothingWitness ==
    /\ result.cmd = "create"
    /\ result.err = "branch already exists"
    /\ result.branch = 0
    /\ result.name \in branches
    /\ result.name \notin live
    /\ index[result.name] = 0
    /\ Len(result.hooks) = MaxHooks
    /\ HookEvents(result.hooks) = {"pre_create"}

====
